---- MODULE Spec2Model ----
(***************************************************************************)
(* mastodon-webhooks: the relay process of src/server.ts (main), the REST  *)
(* pagination and the stream clients of src/mastodon.ts, and the routing   *)
(* of src/webhooks.ts, as one state machine.                               *)
(*                                                                         *)
(* Status ids are numeric strings in the program and are compared through  *)
(* BigInt; here an id is the natural number BigInt(id) denotes, and 0      *)
(* stands for null (no cursor).  Strings the program inspects character by *)
(* character (account handles) are sequences of one-character strings.     *)
(***************************************************************************)
EXTENDS Integers, Sequences, FiniteSets, TLC

\* ------------------------------------------------------------------ bounds

MaxId == 3          \* status ids are 1..MaxId
MaxCursor == 1      \* the state file found at the first start holds 0..MaxCursor
PageLimit == 2      \* statuses the server returns per timeline page
MaxSockets == 3     \* WebSocket objects one process creates
MaxLive == 2        \* transport messages one process handles
MaxRestarts == 1    \* restarts of the process
MaxLen == 3         \* characters of an author handle given to the routing
MaxRules == 2       \* rows of each filter table given to the routing
MaxAttachments == 3 \* media attachments of a status given to the chat formatter
MaxDepth == 3       \* levels of a repost chain given to the chat formatter
MaxCalls == 3       \* calls of getAccountColour
MaxPings == 2       \* pings of one connection
MaxCommands == 2    \* follow and unfollow commands of one channel

\* ------------------------------------------------------------ data, config

Ids == 1..MaxId

\* account.id of the account the token belongs to (verify_credentials)
BotAccountId == "bot"

\* MASTODON_ACCT_HOST
account_host == <<"l">>

\* the sub-channels main() passes to createSocketStream
streams == <<"user", "public">>

\* MASTODON_URL
server_url == "https://l"

\* A status of kind k with id n, as the server serializes it: a text status
\* without content warning or attachments; uri and url name the server of
\* the author.
WithId(k, n) ==
    LET uri == (IF \E i \in 1..Len(k.account.acct) : k.account.acct[i] = "@"
                THEN "https://h" ELSE server_url) \o "/" \o ToString(n)
    IN [id |-> n, spoiler_text |-> "", media_attachments |-> << >>, uri |-> uri,
        url |-> uri] @@ k

\* the status the repost of StreamKinds reposts
Reblogged ==
    WithId([visibility |-> "public", sensitive |-> FALSE, reblog |-> << >>,
            in_reply_to_id |-> 0, in_reply_to_account_id |-> "", mentions |-> {},
            account |-> [id |-> "2", acct |-> <<"b", "@", "h">>, locked |-> FALSE,
                         display_name |-> "B"]], MaxId + 1)

\* The statuses the server can hold or send, without their id.
StatusKinds ==
    { [visibility |-> "public", sensitive |-> FALSE, reblog |-> << >>,
       in_reply_to_id |-> 0, in_reply_to_account_id |-> "",
       mentions |-> {},
       account |-> [id |-> "1", acct |-> <<"a">>, locked |-> FALSE, display_name |-> "A"]],
      [visibility |-> "private", sensitive |-> FALSE, reblog |-> << >>,
       in_reply_to_id |-> 0, in_reply_to_account_id |-> "",
       mentions |-> {},
       account |-> [id |-> "2", acct |-> <<"b", "@", "h">>, locked |-> TRUE, display_name |-> "B"]],
      [visibility |-> "private", sensitive |-> FALSE, reblog |-> << >>,
       in_reply_to_id |-> 0, in_reply_to_account_id |-> "",
       mentions |-> {BotAccountId},
       account |-> [id |-> "2", acct |-> <<"b", "@", "h">>, locked |-> TRUE, display_name |-> "B"]] }


Statuses == { WithId(k, n) : k \in StatusKinds, n \in Ids }

\* Further statuses a stream can carry: a repost, a reply to another account,
\* a reply to the author's own status, a followers-only status of an account
\* that is not locked, an unlisted status.
StreamKinds ==
    StatusKinds \cup
    { [visibility |-> "public", sensitive |-> FALSE, reblog |-> << Reblogged >>,
       in_reply_to_id |-> 0, in_reply_to_account_id |-> "",
       mentions |-> {},
       account |-> [id |-> "1", acct |-> <<"a">>, locked |-> FALSE, display_name |-> "A"]],
      [visibility |-> "public", sensitive |-> FALSE, reblog |-> << >>,
       in_reply_to_id |-> 1, in_reply_to_account_id |-> "2",
       mentions |-> {},
       account |-> [id |-> "1", acct |-> <<"a">>, locked |-> FALSE, display_name |-> "A"]],
      [visibility |-> "public", sensitive |-> FALSE, reblog |-> << >>,
       in_reply_to_id |-> 1, in_reply_to_account_id |-> "1",
       mentions |-> {},
       account |-> [id |-> "1", acct |-> <<"a">>, locked |-> FALSE, display_name |-> "A"]],
      [visibility |-> "private", sensitive |-> FALSE, reblog |-> << >>,
       in_reply_to_id |-> 0, in_reply_to_account_id |-> "",
       mentions |-> {},
       account |-> [id |-> "1", acct |-> <<"a">>, locked |-> FALSE, display_name |-> "A"]],
      [visibility |-> "unlisted", sensitive |-> FALSE, reblog |-> << >>,
       in_reply_to_id |-> 0, in_reply_to_account_id |-> "",
       mentions |-> {},
       account |-> [id |-> "1", acct |-> <<"a">>, locked |-> FALSE, display_name |-> "A"]] }

StreamStatuses == { WithId(k, n) : k \in StreamKinds, n \in Ids }

\* webhooks.yaml
config_webhooks ==
    << [url |-> "u1", type |-> "mastodon", acct |-> << <<"a", "@", "l">> >>, host |-> << >>],
       [url |-> "u3", type |-> "discord", acct |-> << >>, host |-> << <<"h">> >>] >>

\* the rows of the tables webhooks, webhook_filter_acct, webhook_filter_host
db_webhooks == { [id |-> 1, type |-> "discord", url |-> "u2"] }
db_webhook_filter_acct == << [id |-> 1, webhook_id |-> 1, acct |-> <<"b", "@", "h">>] >>
db_webhook_filter_host == << [id |-> 1, webhook_id |-> 1, host |-> <<"h">>] >>

\* data/database.db as installed: the three tables
database ==
    [webhooks |-> db_webhooks,
     webhook_filter_acct |-> db_webhook_filter_acct,
     webhook_filter_host |-> db_webhook_filter_host]

\* The inputs of the routing: author handles, the rows of the tables, the
\* entries of webhooks.yaml.  An endpoint can be entered in the file and in the
\* table at once, and no table has a uniqueness or foreign-key constraint.
Handles == UNION { [1..n -> {"a", "@", "h"}] : n \in 1..MaxLen }

RoutedStatuses ==
    { [visibility |-> "public", sensitive |-> FALSE, reblog |-> << >>,
       in_reply_to_id |-> 0, in_reply_to_account_id |-> "", mentions |-> {},
       account |-> [id |-> "1", acct |-> handle, locked |-> FALSE, display_name |-> "A"],
       id |-> 1, spoiler_text |-> "", media_attachments |-> << >>,
       uri |-> "https://h/1", url |-> "https://h/1"] :
      handle \in Handles }

WebhookRows ==
    { { [id |-> 1, type |-> "discord", url |-> "u2"] },
      { [id |-> 1, type |-> "discord", url |-> "u2"],
        [id |-> 2, type |-> "mastodon", url |-> "u1"] } }

FilterAcctRows ==
    UNION { { [i \in 1..n |-> [id |-> i, webhook_id |-> f[i], acct |-> <<"a", "@", "h">>]] :
              f \in [1..n -> {1, 2}] } : n \in 0..MaxRules }

FilterHostRows ==
    UNION { { [i \in 1..n |-> [id |-> i, webhook_id |-> f[i], host |-> <<"h">>]] :
              f \in [1..n -> {1, 2}] } : n \in 0..MaxRules }

Databases ==
    [webhooks : WebhookRows, webhook_filter_acct : FilterAcctRows,
     webhook_filter_host : FilterHostRows]

Configs ==
    { << >>,
      config_webhooks,
      << [url |-> "u2", type |-> "discord", acct |-> << <<"a", "@", "h">> >>, host |-> << >>] >> }

\* The inputs of the executors.  A media attachment is an image, with or
\* without the meta the server adds once it has processed the file, or a video.
MediaAttachments ==
    UNION { { [i \in 1..n |-> [id |-> i, type |-> f[i], url |-> "m" \o ToString(i),
                               meta |-> << [width |-> 4, height |-> 3] >>]] :
              f \in [1..n -> {"image", "video"}] } : n \in 0..MaxAttachments }

Status(id, uri, url, sensitive, spoiler_text, media_attachments, reblog, author) ==
    [id |-> id, uri |-> uri, url |-> url, visibility |-> "public", sensitive |-> sensitive,
     spoiler_text |-> spoiler_text, media_attachments |-> media_attachments,
     reblog |-> reblog, in_reply_to_id |-> 0, in_reply_to_account_id |-> "",
     mentions |-> {}, account |-> author]

\* statuses of one level, for every attachment list, with and without content
\* warning and sensitive flag, of this server, of another server, and of a
\* server whose URL begins with the URL of this one
AttachmentStatuses ==
    { Status(1, uri, uri, sensitive, spoiler_text, media_attachments, << >>,
             [id |-> "1", acct |-> <<"a">>, locked |-> FALSE, display_name |-> "A"]) :
      uri \in {"https://l/1", "https://h/1", "https://l.h/1"},
      sensitive \in BOOLEAN, spoiler_text \in {"", "cw"},
      media_attachments \in MediaAttachments }

\* one level of a repost chain: the id, whether the status has a permalink
\* (url is null for a status without one), whether it has an image
Levels ==
    { [id |-> id, url |-> url, media_attachments |-> media_attachments] :
      id \in 1..2, url \in BOOLEAN,
      media_attachments \in { m \in MediaAttachments :
                                 m = << >> \/ (Len(m) = 1 /\ m[1].type = "image") } }

\* the status JSON.parse builds from levels: each level is the reblog of the
\* one before; the ids of levels are whatever the server wrote
RECURSIVE Nested(_)
Nested(levels) ==
    LET uri == server_url \o "/" \o ToString(levels[1].id) IN
    Status(levels[1].id, uri, IF levels[1].url THEN uri ELSE "", FALSE, "",
           levels[1].media_attachments,
           IF Len(levels) = 1 THEN << >> ELSE << Nested(Tail(levels)) >>,
           [id |-> "1", acct |-> <<"a">>, locked |-> FALSE, display_name |-> "A"])

ChainStatuses == { Nested(levels) : levels \in UNION { [1..n -> Levels] : n \in 1..MaxDepth } }

\* display names and handles of authors
DisplayNames ==
    { "A", "", " A  B ", ":e:", "A :e_1: B", ":e: :f:", "a:b", ": e :", "::", ":e:f:",
      "discord", "Discord", "my discord", "dis:e:cord", "dis cord", ":discord:" }

AuthorHandles == { <<"a">>, <<"a", "@", "h">>, <<"d", "i", "s", "c", "o", "r", "d">>,
                   <<"a", "@", "d", "i", "s", "c", "o", "r", "d">> }

NamedStatuses ==
    { Status(1, "https://h/1", "https://h/1", FALSE, "", << >>, << >>,
             [id |-> "1", acct |-> acct, locked |-> FALSE, display_name |-> display_name]) :
      display_name \in DisplayNames, acct \in AuthorHandles }


\* webhooks.yaml with three endpoints for the posts of the local account a:
\* one of each type, and one of a type the enum does not have
config_three_types ==
    << [url |-> "u1", type |-> "mastodon", acct |-> << <<"a", "@", "l">> >>, host |-> << >>],
       [url |-> "u2", type |-> "discord", acct |-> << <<"a", "@", "l">> >>, host |-> << >>],
       [url |-> "u3", type |-> "slack", acct |-> << <<"a", "@", "l">> >>, host |-> << >>] >>

\* statuses of the account a: a text status, a reply to another account (which
\* the server sends to the user stream only), a status with an image the
\* server has no meta for
StatusesOfA ==
    { Status(1, "https://l/1", "https://l/1", FALSE, "", media_attachments, << >>,
             [id |-> "1", acct |-> <<"a">>, locked |-> FALSE, display_name |-> "A"]) :
      media_attachments \in
        { << >>, << [id |-> 1, type |-> "image", url |-> "m1", meta |-> << >>] >> } }
    \cup
    { [Status(1, "https://l/1", "https://l/1", FALSE, "", << >>, << >>,
              [id |-> "1", acct |-> <<"a">>, locked |-> FALSE, display_name |-> "A"])
          EXCEPT !.in_reply_to_id = 2, !.in_reply_to_account_id = "2"] }

\* webhooks.yaml with one chat endpoint for the posts of the local account a
config_discord ==
    << [url |-> "u2", type |-> "discord", acct |-> << <<"a", "@", "l">> >>, host |-> << >>] >>

\* a status of the local account a, with an image the server has processed or
\* without attachment
StatusOfA(id, media_attachments) ==
    Status(id, "https://l/" \o ToString(id), "https://l/" \o ToString(id), FALSE, "",
           media_attachments, << >>,
           [id |-> "1", acct |-> <<"a">>, locked |-> FALSE, display_name |-> "A"])

\* the attachment lists of the statuses of a
AttachmentsOfA ==
    { << >>, << [id |-> 1, type |-> "image", url |-> "m1",
                 meta |-> << [width |-> 4, height |-> 3] >>] >> }

\* the statuses executeStatusWebhook is called with
ExecutedStatuses == AttachmentStatuses \cup ChainStatuses \cup NamedStatuses \cup StatusesOfA

\* the accounts whose colour is asked for: id and avatar are the strings of the
\* server's JSON (mastodon-types.ts: id: string, avatar: string), numeric ids
\* with avatar URLs and one account whose id holds the separator of the key;
\* and the colours[0] a computation can end with, 0 for null
ColourAccounts ==
    { [id |-> id, avatar |-> avatar] :
      id \in {"1", "2"}, avatar \in {"https://h/a.png", "https://h/b.png"} }
        \cup { [id |-> "1:https", avatar |-> "//h/a.png"] }
Colours == 0..1

\* webhooks of both types of the enum WebhookType, and of a type the enum
\* does not have (the column type is text, the entry of webhooks.yaml is not
\* validated)
WebhookTypes == {"mastodon", "discord"}
ExecutedWebhooks ==
    { [id |-> 1, type |-> type, url |-> "u1"] : type \in WebhookTypes \cup {"slack"} }

\* the URLs of the endpoints, and what the response of fetch(webhook.url) can
\* be: response.ok, !response.ok, or a rejected fetch
Urls == {"u1", "u2", "u3"}
Responses == {"2xx", "non-2xx", "network error"}

\* ----------------------------------------------------------- pure helpers

Max(S) == CHOOSE x \in S : \A y \in S : y <= x
Min(S) == CHOOSE x \in S : \A y \in S : x <= y

\* String.prototype.includes('@')
Includes(s, c) == \E i \in 1..Len(s) : s[i] = c

\* String.prototype.lastIndexOf, 0-based, -1 when absent
LastIndexOf(s, c) ==
    IF Includes(s, c) THEN Max({ i \in 1..Len(s) : s[i] = c }) - 1 ELSE -1

\* String.prototype.substr(from), from 0-based
Substr(s, from) == SubSeq(s, from + 1, Len(s))

\* Array.prototype.sort with the comparator Number(BigInt(a.id) - BigInt(b.id)):
\* a stable insertion of each element after the elements that do not compare
\* greater.
RECURSIVE Insert(_, _)
Insert(sorted, s) ==
    IF sorted = << >> THEN << s >>
    ELSE IF s.id - Head(sorted).id < 0 THEN << s >> \o sorted
    ELSE << Head(sorted) >> \o Insert(Tail(sorted), s)

RECURSIVE SortById(_)
SortById(page) ==
    IF page = << >> THEN << >>
    ELSE Insert(SortById(SubSeq(page, 1, Len(page) - 1)), page[Len(page)])

\* every order in which the elements of a set can come
RECURSIVE Orders(_)
Orders(S) ==
    IF S = {} THEN { << >> }
    ELSE UNION { { << x >> \o o : o \in Orders(S \ {x}) } : x \in S }

\* an array in place of the Set: every id as often as it was added
DistinctKeepsRepeats(seq) == seq

\* a Set<number> in insertion order: the sequence without its repeats
RECURSIVE Distinct(_)
Distinct(seq) ==
    IF seq = << >> THEN << >>
    ELSE LET front == Distinct(SubSeq(seq, 1, Len(seq) - 1))
             last == seq[Len(seq)]
         IN IF \E i \in 1..Len(front) : front[i] = last THEN front
            ELSE Append(front, last)

\* ------------------------------------------------------------------ state

VARIABLES
    file,                  \* data/state.json: last_status_id, 0 when null or no file
    token,                 \* MASTODON_TOKEN is set (mastodon.authenticated)
    timeline,              \* the statuses of the server's timeline
    feed,                  \* the statuses the server sends to streams while the process runs
    config,                \* WebhookManager.config_webhooks: the parsed webhooks.yaml
    db,                    \* WebhookManager.db: the rows of the three tables
    responds,              \* how the endpoint behind each URL answers a POST
    inc,                   \* how often the process was restarted
    pc,                    \* where main() stands; "exited" when the process is gone
    cause,                 \* how the process ended
    error,                 \* the request whose failure rejected main()
    state_last_status_id,  \* state.last_status_id of main()
    account,               \* account of main(): the id, "" for null
    gen_last_status_id,    \* last_status_id of getTimelineStatusesSince
    statuses,              \* the page getTimelineStatusesSince iterates, sorted
    pos,                   \* the index in statuses of the status it yields next
    fetched,               \* the timeline requests of this process: min_id and page size
    visited,               \* the ids the missed-status loop of this process was given
    stream,                \* the const stream of main(): "none", "ws" or "es"
    last_status_id,        \* stream.last_status_id, 0 for null
    account_id,            \* stream.account_id, "" for null
    closed,                \* MastodonStreamWebSocket._closed
    socket,                \* MastodonStreamWebSocket.socket: an index of sockets, 0 for null
    sockets,               \* every WebSocket createSocket made, in order
    events,                \* readyState of MastodonStreamEventSource.events
    handled,               \* transport messages this process handled
    routing,               \* handleStatus calls waiting in getWebhooksForStatus
    observed,              \* the statuses handleStatus was called with, as its debug line logs them
    sends,                 \* every executeWebhookForStatus call, of all processes
    posts,                 \* for each call of sends, how the running process saw its attempts end
    inflight,              \* the indices of sends that have not settled
    execution,             \* one call of executeStatusWebhook: where it stands and what it holds
    account_colour_promise,\* the Map of discord.ts: the entries key -> promise
    promises,              \* every promise getAccountColour made, in order
    callers,               \* every call of getAccountColour: its account and the promise it got
    discord                \* the bot of discord.ts: the webhooks of the channel, its commands

vars == << file, token, timeline, feed, config, db, responds, inc, pc, cause, error,
           state_last_status_id, account, gen_last_status_id, statuses, pos, fetched, visited,
           stream, last_status_id, account_id, closed, socket, sockets, events, handled,
           routing, observed, sends, posts, inflight,
           execution, account_colour_promise, promises, callers, discord >>

mainVars == << state_last_status_id, account, gen_last_status_id, statuses, pos,
               fetched, visited >>
streamVars == << stream, last_status_id, account_id, closed, socket, sockets, events,
                 handled, routing, observed >>
worldVars == << token, timeline, feed, config, db, responds, inc >>
executorVars == << execution, account_colour_promise, promises, callers, discord >>

\* the bot has no command and its channel no webhook
NoBot == [channel |-> {}, commands |-> << >>]

\* no executeStatusWebhook call is followed, no colour has been asked for
NoExecution ==
    /\ execution = [stage |-> "none"]
    /\ account_colour_promise = {}
    /\ promises = << >>
    /\ callers = << >>
    /\ discord = NoBot

\* ---------------------------------------------------------------- routing

\* WebhookManager.checkWebhookMatchesStatus
checkWebhookMatchesStatus(webhook, acct, host) ==
    \/ \E i \in 1..Len(webhook.acct) : webhook.acct[i] = acct
    \/ \E i \in 1..Len(webhook.host) : webhook.host[i] = host

\* status_acct of getWebhooksForStatus: the handle the acct filters are
\* compared with
status_acct(acct, acct_host) ==
    IF Includes(acct, "@") THEN acct ELSE acct \o <<"@">> \o acct_host

\* a host taken after the first '@' of the handle
status_acct_host_first(acct, acct_host) ==
    IF Includes(acct, "@")
    THEN Substr(acct, (CHOOSE i \in 1..Len(acct) :
                          acct[i] = "@" /\ \A j \in 1..(i - 1) : acct[j] # "@"))
    ELSE acct_host

\* status_acct_host of getWebhooksForStatus: the host the host filters are
\* compared with
status_acct_host(acct, acct_host) ==
    IF Includes(acct, "@") THEN Substr(acct, LastIndexOf(acct, "@") + 1)
    ELSE acct_host

\* the webhooks WebhookManager.getWebhooksForStatus yields, in order
getWebhooksForStatus(status, acct_host) ==
    LET acct == status_acct(status.account.acct, acct_host)
        host == status_acct_host(status.account.acct, acct_host)
        configured == SelectSeq(config, LAMBDA w : checkWebhookMatchesStatus(w, acct, host))
        matching_ids_acct == SelectSeq(db.webhook_filter_acct, LAMBDA r : r.acct = acct)
        matching_ids_host == SelectSeq(db.webhook_filter_host, LAMBDA r : r.host = host)
        ids == Distinct([i \in 1..Len(matching_ids_acct) |-> matching_ids_acct[i].webhook_id]
                        \o [i \in 1..Len(matching_ids_host) |-> matching_ids_host[i].webhook_id])
        found == SelectSeq(ids, LAMBDA id : \E w \in db.webhooks : w.id = id)
    IN [i \in 1..Len(configured) |->
            [id |-> -1, type |-> configured[i].type, url |-> configured[i].url]]
       \o [i \in 1..Len(found) |-> CHOOSE w \in db.webhooks : w.id = found[i]]

\* the executeWebhookForStatus calls one status leads to
Calls(status, src) ==
    LET webhooks == getWebhooksForStatus(status, account_host)
    IN [i \in 1..Len(webhooks) |->
            [inc |-> inc, id |-> status.id, url |-> webhooks[i].url, src |-> src,
             type |-> webhooks[i].type, webhook_id |-> webhooks[i].id, status |-> status]]

\* a loop over getWebhooksForStatus that is left after its first webhook
executeWebhooksFirstOnly(status, src) ==
    LET first == SubSeq(Calls(status, src), 1, 1) IN
    /\ sends' = sends \o first
    /\ posts' = posts \o [i \in 1..Len(first) |-> << >>]
    /\ inflight' = inflight \cup (Len(sends) + 1 .. Len(sends) + Len(first))

\* the for-await loop over getWebhooksForStatus: every call is made, none awaited
executeWebhooks(status, src) ==
    /\ sends' = sends \o Calls(status, src)
    /\ posts' = posts \o [i \in 1..Len(Calls(status, src)) |-> << >>]
    /\ inflight' = inflight \cup (Len(sends) + 1 .. Len(sends) + Len(Calls(status, src)))

\* ----------------------------------------------- webhook.ts: the executors

\* text.includes(part)
TextIncludes(text, part) ==
    \E i \in 1..(Len(text) - Len(part) + 1) : SubSeq(text, i, i + Len(part) - 1) = part

\* text.startsWith(prefix)
StartsWith(text, prefix) ==
    Len(text) >= Len(prefix) /\ SubSeq(text, 1, Len(prefix)) = prefix

\* a handle, kept as a sequence of characters, as the text it is
RECURSIVE Text(_)
Text(chars) == IF chars = << >> THEN "" ELSE Head(chars) \o Text(Tail(chars))

\* the characters of [0-9a-z-_] with the flag i, and those of \s that names hold
ShortcodeCharacters == "0123456789abcdefghijklmnopqrstuvwxyzABCDEFGHIJKLMNOPQRSTUVWXYZ-_"
Whitespace == " "

\* how many characters from position i on are in the class
RECURSIVE Run(_, _, _)
Run(text, i, class) ==
    IF i <= Len(text) /\ TextIncludes(class, SubSeq(text, i, i))
    THEN 1 + Run(text, i + 1, class) ELSE 0

\* name.replace(/:[0-9a-z-_]+:/gi, ''): leftmost matches from left to right; a
\* match is a colon, the longest run of characters of the class, there being
\* at least one, and a colon
RECURSIVE RemoveShortcodes(_)
RemoveShortcodes(text) ==
    IF text = "" THEN ""
    ELSE LET n == Run(text, 2, ShortcodeCharacters) IN
         IF /\ SubSeq(text, 1, 1) = ":"
            /\ n >= 1
            /\ n + 2 <= Len(text)
            /\ SubSeq(text, n + 2, n + 2) = ":"
         THEN RemoveShortcodes(SubSeq(text, n + 3, Len(text)))
         ELSE SubSeq(text, 1, 1) \o RemoveShortcodes(SubSeq(text, 2, Len(text)))

\* name.replace(/\s+/g, ' ')
RECURSIVE CollapseWhitespace(_)
CollapseWhitespace(text) ==
    IF text = "" THEN ""
    ELSE LET n == Run(text, 1, Whitespace) IN
         IF n >= 1 THEN " " \o CollapseWhitespace(SubSeq(text, n + 1, Len(text)))
         ELSE SubSeq(text, 1, 1) \o CollapseWhitespace(SubSeq(text, 2, Len(text)))

\* name.trim()
RECURSIVE Trim(_)
Trim(text) ==
    IF text = "" THEN ""
    ELSE IF TextIncludes(Whitespace, SubSeq(text, 1, 1)) THEN Trim(SubSeq(text, 2, Len(text)))
    ELSE IF TextIncludes(Whitespace, SubSeq(text, Len(text), Len(text)))
    THEN Trim(SubSeq(text, 1, Len(text) - 1))
    ELSE text

\* username of StatusWebhookExecutorDiscord.formatPayload
username(status) ==
    LET acct == Text(status_acct(status.account.acct, account_host))
        name == Trim(CollapseWhitespace(RemoveShortcodes(status.account.display_name)))
                    \o " - @" \o acct
    IN IF TextIncludes(name, "discord")
       THEN IF TextIncludes(acct, "discord") THEN "???" ELSE "@" \o acct
       ELSE name

\* status.media_attachments.find(a => a.type === 'image'): << >> for undefined
image(status) ==
    LET images == SelectSeq(status.media_attachments, LAMBDA a : a.type = "image")
    IN IF images = << >> THEN << >> ELSE << images[1] >>

\* a footer that counts every image where the code counts those not shown
footer_text_counts_all(status) ==
    LET length == Len(status.media_attachments) IN
    IF \E i \in 1..length : status.media_attachments[i].type # "image"
    THEN << ToString(length) \o " attachment" \o (IF length = 1 THEN "" ELSE "s") >>
    ELSE IF (status.spoiler_text # "" \/ status.sensitive) /\ length # 0
    THEN << ToString(length) \o " image" \o (IF length = 1 THEN "" ELSE "s") >>
    ELSE IF image(status) # << >> /\ length > 1
    THEN << "+ " \o ToString(length) \o " image" \o (IF length = 1 THEN "" ELSE "s") >>
    ELSE << >>

\* a footer that writes the count of further images right after the plus sign
footer_text_plus_joined(status) ==
    LET length == Len(status.media_attachments) IN
    IF \E i \in 1..length : status.media_attachments[i].type # "image"
    THEN << ToString(length) \o " attachment" \o (IF length = 1 THEN "" ELSE "s") >>
    ELSE IF (status.spoiler_text # "" \/ status.sensitive) /\ length # 0
    THEN << ToString(length) \o " image" \o (IF length = 1 THEN "" ELSE "s") >>
    ELSE IF image(status) # << >> /\ length > 1
    THEN << "+" \o ToString(length - 1) \o " image" \o (IF length = 2 THEN "" ELSE "s") >>
    ELSE << >>

\* footer_text of formatPayload: << >> for null
footer_text(status) ==
    LET length == Len(status.media_attachments) IN
    IF \E i \in 1..length : status.media_attachments[i].type # "image"
    THEN << ToString(length) \o " attachment" \o (IF length = 1 THEN "" ELSE "s") >>
    ELSE IF (status.spoiler_text # "" \/ status.sensitive) /\ length # 0
    THEN << ToString(length) \o " image" \o (IF length = 1 THEN "" ELSE "s") >>
    ELSE IF image(status) # << >> /\ length > 1
    THEN << "+ " \o ToString(length - 1) \o " image" \o (IF length = 2 THEN "" ELSE "s") >>
    ELSE << >>

\* an embed whose image is the last image attachment
embedLastImage(status) ==
    LET images == SelectSeq(status.media_attachments, LAMBDA a : a.type = "image")
    IN [url |-> status.uri,
        author |-> status.account.display_name,
        footer |-> footer_text(status),
        image |-> IF images # << >> /\ status.spoiler_text = "" /\ ~status.sensitive
                  THEN << [url |-> images[Len(images)].url,
                           width |-> images[Len(images)].meta[1].width,
                           height |-> images[Len(images)].meta[1].height] >>
                  ELSE << >>]

\* embed of formatPayload, for one level of the chain: footer and image are
\* << >> for undefined
embed(status) ==
    [url |-> status.uri,
     author |-> status.account.display_name,
     footer |-> footer_text(status),
     image |-> IF image(status) # << >> /\ status.spoiler_text = "" /\ ~status.sensitive
               THEN << [url |-> image(status)[1].url,
                        width |-> image(status)[1].meta[1].width,
                        height |-> image(status)[1].meta[1].height] >>
               ELSE << >>]

\* reading image.meta.original of an attachment without meta throws
embedThrows(status) ==
    /\ image(status) # << >>
    /\ status.spoiler_text = ""
    /\ ~status.sensitive
    /\ image(status)[1].meta = << >>

\* a walk that puts the reposted status before the status that reposts it
RECURSIVE chainInnermostFirst(_)
chainInnermostFirst(status) ==
    (IF status.reblog = << >> THEN << >> ELSE chainInnermostFirst(status.reblog[1]))
        \o << status >>

\* the statuses the while loop of formatPayload is run for: status, then
\* status.reblog, until it is null
RECURSIVE chain(_)
chain(status) ==
    << status >> \o (IF status.reblog = << >> THEN << >> ELSE chain(status.reblog[1]))

\* content of formatPayload: '\n' and the url of each level that has one
RECURSIVE content(_)
content(levels) ==
    IF levels = << >> THEN ""
    ELSE (IF levels[1].url # "" THEN "\n" \o levels[1].url ELSE "") \o content(Tail(levels))

\* StatusWebhookExecutorDiscord.formatPayload: the message, or the exception
\* of the first level whose embed cannot be built
formatPayloadDiscord(status) ==
    IF \E i \in 1..Len(chain(status)) : embedThrows(chain(status)[i])
    THEN [throws |-> "TypeError"]
    ELSE [throws |-> "",
          username |-> username(status),
          content |-> content(chain(status)),
          embeds |-> [i \in 1..Len(chain(status)) |-> embed(chain(status)[i])]]

\* StatusWebhookExecutor.formatPayload: the status itself
formatPayload(status) == [throws |-> "", status |-> status]

\* the test of StatusWebhookExecutorDiscord.send: whether 15 s are waited
\* before super.send
waits(status) ==
    /\ StartsWith(status.uri, server_url)
    /\ image(status) # << >>

\* ------------------------------------------------------------------- Init

Init ==
    /\ file \in 0..MaxCursor
    /\ token \in BOOLEAN
    /\ timeline \in { T \in SUBSET Statuses : \A s, t \in T : s.id = t.id => s = t }
    /\ feed = { s \in Statuses : s.visibility = "public" }
    /\ config = config_webhooks
    /\ db = database
    /\ responds = [u \in Urls |-> "2xx"]
    /\ inc = 0
    /\ pc = "boot"
    /\ cause = "running"
    /\ error = ""
    /\ state_last_status_id = 0
    /\ account = ""
    /\ gen_last_status_id = 0
    /\ statuses = << >>
    /\ pos = 1
    /\ fetched = << >>
    /\ visited = << >>
    /\ stream = "none"
    /\ last_status_id = 0
    /\ account_id = ""
    /\ closed = FALSE
    /\ socket = 0
    /\ sockets = << >>
    /\ events = "none"
    /\ handled = 0
    /\ routing = << >>
    /\ observed = << >>
    /\ sends = << >>
    /\ posts = << >>
    /\ inflight = {}
    /\ NoExecution

\* ------------------------------------------------- main(): gap recovery

\* tryReadJson(state.json), and the test of state?.last_status_id
ReadState ==
    /\ pc = "boot"
    /\ state_last_status_id' = file
    /\ pc' = IF file # 0 THEN "account" ELSE "create_stream"
    /\ UNCHANGED << file, worldVars, cause, error, account, gen_last_status_id, statuses,
                    pos, fetched, visited, streamVars, sends, posts, inflight >>
    /\ UNCHANGED executorVars

\* mastodon.authenticated ? await mastodon.getAccount() : null; the call of
\* getTimelineStatusesSince(state.last_status_id)
GetAccount ==
    /\ pc = "account"
    /\ \/ /\ account' = IF token THEN BotAccountId ELSE ""
          /\ gen_last_status_id' = state_last_status_id
          /\ pc' = "fetch"
          /\ error' = error
       \/ /\ token
          /\ pc' = "rejected"
          /\ error' = "account"
          /\ UNCHANGED << account, gen_last_status_id >>
    /\ UNCHANGED << file, worldVars, cause, state_last_status_id, statuses, pos, fetched,
                    visited, streamVars, sends, posts, inflight >>
    /\ UNCHANGED executorVars

\* what GET /api/v1/timelines/...?min_id= answers: the PageLimit statuses
\* that come next after min_id
ServerPage(min_id) ==
    LET newer == { s \in timeline : s.id > min_id }
    IN { s \in newer : Cardinality({ t \in newer : t.id < s.id }) < PageLimit }

\* a loop that asks for the next page whatever the last one held
WhileStatusesAlways(page) == TRUE

\* the condition of do ... while (statuses.length)
WhileStatuses(page) == Len(page) # 0

\* one turn of the do-while of getTimelineStatusesSince up to its first yield:
\* fetch, sort, and the loop's end on an empty page
FetchPage ==
    /\ pc = "fetch"
    /\ \E order \in Orders(ServerPage(gen_last_status_id)) :
         LET page == SortById(order) IN
         /\ statuses' = page
         /\ pos' = 1
         /\ fetched' = Append(fetched, [min_id |-> gen_last_status_id, length |-> Len(order)])
         /\ pc' = IF page # << >> THEN "body"
                  ELSE IF WhileStatuses(page) THEN "fetch" ELSE "create_stream"
    /\ UNCHANGED << file, worldVars, cause, error, state_last_status_id, account,
                    gen_last_status_id, visited, streamVars, sends, posts, inflight >>
    /\ UNCHANGED executorVars

\* MastodonApi.fetch throws (network error or !response.ok): the generator
\* throws, the for-await throws, main() rejects
FetchFails ==
    /\ pc = "fetch"
    /\ pc' = "rejected"
    /\ error' = "timeline"
    /\ UNCHANGED << file, worldVars, cause, mainVars, streamVars, sends, posts, inflight >>
    /\ UNCHANGED executorVars

\* a visibility test that does not look at the mentions
FollowersOnlySkippedWhoeverIsMentioned(status, bot) ==
    /\ status.visibility = "private"
    /\ status.account.locked

\* the visibility test both main() and handleStatus make
FollowersOnlySkipped(status, bot) ==
    /\ status.visibility = "private"
    /\ status.account.locked
    /\ ~(bot # "" /\ bot \in status.mentions)

\* the body of the missed-status loop up to its for-await
MissedStatus ==
    /\ pc = "body"
    /\ LET status == statuses[pos] IN
       /\ visited' = Append(visited, status.id)
       /\ IF FollowersOnlySkipped(status, account)
          THEN /\ pc' = "returned"
               /\ UNCHANGED state_last_status_id
          ELSE /\ state_last_status_id' = status.id
               /\ pc' = "route"
    /\ UNCHANGED << file, worldVars, cause, error, account, gen_last_status_id, statuses,
                    pos, fetched, streamVars, sends, posts, inflight >>
    /\ UNCHANGED executorVars

\* the for-await over getWebhooksForStatus of the missed-status loop, then the
\* generator resumes: last_status_id = status.id, next status or next page
MissedWebhooks ==
    /\ pc = "route"
    /\ LET status == statuses[pos] IN
       /\ executeWebhooks(status, "missed")
       /\ gen_last_status_id' = status.id
       /\ pos' = pos + 1
       /\ pc' = IF pos < Len(statuses) THEN "body"
                ELSE IF WhileStatuses(statuses) THEN "fetch" ELSE "create_stream"
    /\ UNCHANGED << file, worldVars, cause, error, state_last_status_id, account, statuses,
                    fetched, visited, streamVars >>
    /\ UNCHANGED executorVars

\* ------------------------------------------------------ the stream clients

\* new WebSocket(this.socket_url) of createSocket, with its interval variable
NewSocket ==
    [state |-> "connecting", opened |-> FALSE, interval |-> FALSE, sent |-> << >>,
     received |-> 0, pings |-> 0]

\* createSocket: the sockets made so far and this.socket after
\* this.socket = this.createSocket()
createSocket(socks) ==
    [sockets |-> Append(socks, NewSocket), socket |-> Len(socks) + 1]

\* mastodon.authenticated ? await createSocketStream(...) : createEventStream(...)
CreateStream ==
    /\ pc = "create_stream"
    /\ \/ /\ token
          /\ stream' = "ws"
          /\ account_id' = BotAccountId
          /\ sockets' = createSocket(<< >>).sockets
          /\ socket' = createSocket(<< >>).socket
          /\ pc' = "live"
          /\ UNCHANGED << events, error >>
       \/ /\ token
          /\ pc' = "rejected"
          /\ error' = "stream"
          /\ UNCHANGED << stream, account_id, sockets, socket, events >>
       \/ /\ ~token
          /\ stream' = "es"
          /\ events' = "connecting"
          /\ pc' = "live"
          /\ UNCHANGED << account_id, sockets, socket, error >>
    /\ UNCHANGED << file, worldVars, cause, mainVars, last_status_id, closed, handled,
                    routing, observed, sends, posts, inflight >>
    /\ UNCHANGED executorVars

\* a handleOpen that subscribes on the first connection only
handleOpenOnce(socks, current) ==
    IF current # 1 THEN socks
    ELSE [socks EXCEPT ![current].sent =
              @ \o [k \in 1..Len(streams) |-> [type |-> "subscribe", stream |-> streams[k]]]]

\* MastodonStreamWebSocket.handleOpen: this.socket?.send of one subscribe
\* message per entry of this.streams
handleOpen(socks, current) ==
    IF current = 0 THEN socks
    ELSE [socks EXCEPT ![current].sent =
              @ \o [k \in 1..Len(streams) |-> [type |-> "subscribe", stream |-> streams[k]]]]

\* ws.onopen
WsOpen(i) ==
    /\ pc = "live"
    /\ sockets[i].state = "connecting"
    /\ sockets' = handleOpen([sockets EXCEPT ![i].state = "open", ![i].opened = TRUE,
                                             ![i].interval = TRUE], socket)
    /\ UNCHANGED << file, worldVars, pc, cause, error, mainVars, stream, last_status_id,
                    account_id, closed, socket, events, handled, routing, observed, sends, posts, inflight >>
    /\ UNCHANGED executorVars

\* the callback of setInterval(() => ws.ping(), 10000) of a connection whose
\* timer is set: ws.ping() sends a ping frame when the connection is open, and
\* none when the close handshake has begun
Ping(i) ==
    /\ pc = "live"
    /\ sockets[i].interval
    /\ sockets[i].pings < MaxPings
    /\ sockets' = IF sockets[i].state = "open"
                  THEN [sockets EXCEPT ![i].pings = @ + 1]
                  ELSE sockets
    /\ UNCHANGED << file, worldVars, pc, cause, error, mainVars, stream, last_status_id,
                    account_id, closed, socket, events, handled, routing, observed, sends, posts, inflight >>
    /\ UNCHANGED executorVars

\* a handleClose without the test of this._closed
handleCloseAlways(socks, isClosed) == createSocket(socks)

\* a handleClose that never connects again
handleCloseNever(socks, isClosed) == [sockets |-> socks, socket |-> 0]

\* MastodonStreamWebSocket.handleClose, after onclose set this.socket = null
handleClose(socks, isClosed) ==
    IF isClosed THEN [sockets |-> socks, socket |-> 0]
    ELSE createSocket(socks)

\* an onclose that leaves the timer of the connection running
WsCloseKeepsTimer(i) ==
    /\ pc = "live"
    /\ sockets[i].state \in {"connecting", "open", "closing"}
    /\ closed \/ Len(sockets) < MaxSockets
    /\ LET after == handleClose([sockets EXCEPT ![i].state = "closed"], closed)
       IN /\ sockets' = after.sockets
          /\ socket' = after.socket
    /\ UNCHANGED << file, worldVars, pc, cause, error, mainVars, stream, last_status_id,
                    account_id, closed, events, handled, routing, observed, sends, posts, inflight >>
    /\ UNCHANGED executorVars

\* ws.onclose: the connection failed, was lost, or the close handshake ended
WsClose(i) ==
    /\ pc = "live"
    /\ sockets[i].state \in {"connecting", "open", "closing"}
    /\ closed \/ Len(sockets) < MaxSockets
    /\ LET after == handleClose([sockets EXCEPT ![i].state = "closed",
                                                ![i].interval = FALSE], closed)
       IN /\ sockets' = after.sockets
          /\ socket' = after.socket
    /\ UNCHANGED << file, worldVars, pc, cause, error, mainVars, stream, last_status_id,
                    account_id, closed, events, handled, routing, observed, sends, posts, inflight >>
    /\ UNCHANGED executorVars

\* the handlers of SIGINT and SIGTERM: stream.close()
Shutdown ==
    /\ pc = "live"
    /\ \/ /\ stream = "ws"
          /\ closed' = TRUE
          /\ sockets' = IF socket # 0 /\ sockets[socket].state \in {"connecting", "open"}
                        THEN [sockets EXCEPT ![socket].state = "closing"]
                        ELSE sockets
          /\ UNCHANGED events
       \/ /\ stream = "es"
          /\ events' = "closed"
          /\ UNCHANGED << closed, sockets >>
    /\ UNCHANGED << file, worldVars, pc, cause, error, mainVars, stream, last_status_id,
                    account_id, socket, handled, routing, observed, sends, posts, inflight >>
    /\ UNCHANGED executorVars

\* EventSource: the connection opens (handleConnected only logs)
EsOpen ==
    /\ pc = "live"
    /\ events = "connecting"
    /\ events' = "open"
    /\ UNCHANGED << file, worldVars, pc, cause, error, mainVars, stream, last_status_id,
                    account_id, closed, socket, sockets, handled, routing, observed, sends, posts, inflight >>
    /\ UNCHANGED executorVars

\* EventSource: the connection fails or is lost, the EventSource object
\* connects again by itself (handleError only logs)
EsError ==
    /\ pc = "live"
    /\ events = "open"
    /\ events' = "connecting"
    /\ UNCHANGED << file, worldVars, pc, cause, error, mainVars, stream, last_status_id,
                    account_id, closed, socket, sockets, handled, routing, observed, sends, posts, inflight >>
    /\ UNCHANGED executorVars

\* ------------------------------------------------------------ live events

\* stream?.last_status_id ?? state?.last_status_id of updateSavedState
Cursor == IF last_status_id # 0 THEN last_status_id ELSE state_last_status_id

\* The rule of the server's fan_out_on_write_service.rb that isStatusDiscoverable
\* quotes: the statuses the server also sends to the public stream.
broadcast_to_public_streams(status) ==
    /\ status.visibility = "public"
    /\ status.reblog = << >>
    /\ ~(status.in_reply_to_id # 0 /\ status.in_reply_to_account_id # status.account.id)

\* the statuses the server has or is about to have
Known == feed \cup timeline

\* The events the server sends, decoded: a status of the feed goes to the user
\* stream and, when the server broadcasts it, to the public stream; a
\* notification, an edit or a deletion is about a status the server has.
Messages ==
    [event : {"update"}, stream : { <<"user">> }, status : feed]
    \cup [event : {"update"}, stream : { <<"public">> },
          status : { s \in feed : broadcast_to_public_streams(s) }]
    \cup [event : {"notification"}, stream : { <<"user">> },
          status : { s \in Known : s = CHOOSE t \in Known : TRUE }]
    \cup [event : {"delete", "status.update"}, stream : { <<"user">>, <<"public">> },
          status : { s \in Known : s = CHOOSE t \in Known : TRUE }]

\* What a transport hands to its listener: the text of the frame and, in it,
\* the text of the payload; each is JSON or is not.
Frames == [text : {"json", "not json"}, payload : {"json", "not json"}, data : Messages]

\* JSON.parse throws a SyntaxError on a text that is not JSON
JSONparseThrows(text) == text # "json"

\* the JSON.parse calls of ws.onmessage and MastodonStreamWebSocket.handleMessage
\* for one frame: the frame, then the payload of every event but delete
WsThrows(frame) ==
    \/ JSONparseThrows(frame.text)
    \/ /\ frame.data.event \in {"update", "notification", "status.update"}
       /\ JSONparseThrows(frame.payload)

\* the JSON.parse calls of the listeners of the EventSource: event.data of
\* every event but delete
EsThrows(frame) ==
    /\ frame.data.event \in {"update", "notification", "status.update"}
    /\ JSONparseThrows(frame.payload)

\* An exception leaves a listener: nothing catches it, the process ends on the
\* uncaught exception and its exit handler writes state.json.
Uncaught ==
    /\ pc' = "exited"
    /\ cause' = "uncaught"
    /\ file' = Cursor
    /\ inflight' = {}
    /\ posts' = [k \in 1..Len(posts) |-> << >>]

\* an isStatusDiscoverable without the test of replies
isStatusDiscoverableWithReplies(status) ==
    IF status.visibility # "public" THEN FALSE
    ELSE IF status.reblog # << >> THEN FALSE
    ELSE TRUE

\* MastodonStream.isStatusDiscoverable
isStatusDiscoverable(status) ==
    IF status.visibility # "public" THEN FALSE
    ELSE IF status.reblog # << >> THEN FALSE
    ELSE IF status.in_reply_to_id # 0 /\ status.in_reply_to_account_id # status.account.id
         THEN FALSE
    ELSE TRUE

\* the value MastodonStream.handleStatus leaves in this.last_status_id
NextLastStatusId(current, status) == status.id

\* a handleStatus without the test of skip_public
handleStatusOnEveryChannel(status, event, skip_public) ==
    /\ observed' = Append(observed, [event |-> event, status |-> status])
    /\ IF FollowersOnlySkipped(status, account_id)
       THEN UNCHANGED << last_status_id, routing >>
       ELSE /\ last_status_id' = NextLastStatusId(last_status_id, status)
            /\ routing' = Append(routing, status)

\* MastodonStream.handleStatus up to its for-await
handleStatus(status, event, skip_public) ==
    /\ observed' = Append(observed, [event |-> event, status |-> status])
    /\ IF FollowersOnlySkipped(status, account_id)
       THEN UNCHANGED << last_status_id, routing >>
       ELSE IF skip_public /\ status.visibility = "public" /\ isStatusDiscoverable(status)
       THEN UNCHANGED << last_status_id, routing >>
       ELSE /\ last_status_id' = NextLastStatusId(last_status_id, status)
            /\ routing' = Append(routing, status)

\* a handleMessage that takes an edited status for a new one
handleMessageUpdatesToo(data, event, skip_public) ==
    IF data.event \in {"update", "status.update"}
    THEN handleStatus(data.status, event, skip_public)
    ELSE UNCHANGED << last_status_id, routing, observed >>

\* handleMessage of either stream client: update goes to handleStatus; the
\* handlers of notification, delete and status.update only log
handleMessage(data, event, skip_public) ==
    IF data.event = "update" THEN handleStatus(data.status, event, skip_public)
    ELSE UNCHANGED << last_status_id, routing, observed >>

\* ws.onmessage: a frame of a connection that opened and has not closed
WsMessage(i) ==
    /\ pc = "live"
    /\ sockets[i].opened
    /\ sockets[i].state \in {"open", "closing"}
    /\ handled < MaxLive
    /\ \E frame \in Frames :
         IF WsThrows(frame)
         THEN /\ Uncaught
              /\ UNCHANGED << last_status_id, routing, observed >>
         ELSE /\ handleMessage(frame.data, frame.data.stream,
                               ~Includes(frame.data.stream, "public")
                                   /\ Includes(streams, "public"))
              /\ UNCHANGED << file, pc, cause, posts, inflight >>
    /\ handled' = handled + 1
    /\ sockets' = [sockets EXCEPT ![i].received = @ + 1]
    /\ UNCHANGED << worldVars, error, mainVars, stream, account_id, closed, socket, events,
                    sends >>
    /\ UNCHANGED executorVars

\* the listeners of the EventSource, which main() connects to the public stream
EsMessage ==
    /\ pc = "live"
    /\ events = "open"
    /\ handled < MaxLive
    /\ \E frame \in Frames :
         /\ frame.text = "json"
         /\ frame.data.stream = <<"public">>
         /\ IF EsThrows(frame)
            THEN /\ Uncaught
                 /\ UNCHANGED << last_status_id, routing, observed >>
            ELSE /\ handleMessage(frame.data, "MessageEvent", FALSE)
                 /\ UNCHANGED << file, pc, cause, posts, inflight >>
    /\ handled' = handled + 1
    /\ UNCHANGED << worldVars, error, mainVars, stream, account_id, closed, socket, sockets,
                    events, sends >>
    /\ UNCHANGED executorVars

\* a handleStatus that starts its deliveries when those before have settled
LiveWebhooksAfterDeliveries ==
    /\ pc = "live"
    /\ inflight = {}
    /\ \E k \in 1..Len(routing) :
         /\ executeWebhooks(routing[k], "live")
         /\ routing' = SubSeq(routing, 1, k - 1) \o SubSeq(routing, k + 1, Len(routing))
    /\ UNCHANGED << file, worldVars, pc, cause, error, mainVars, stream, last_status_id,
                    account_id, closed, socket, sockets, events, handled, observed >>
    /\ UNCHANGED executorVars

\* the for-await over getWebhooksForStatus of one handleStatus call
LiveWebhooks ==
    /\ pc = "live"
    /\ \E k \in 1..Len(routing) :
         /\ executeWebhooks(routing[k], "live")
         /\ routing' = SubSeq(routing, 1, k - 1) \o SubSeq(routing, k + 1, Len(routing))
    /\ UNCHANGED << file, worldVars, pc, cause, error, mainVars, stream, last_status_id,
                    account_id, closed, socket, sockets, events, handled, observed >>
    /\ UNCHANGED executorVars

\* How one executeStatusWebhook call ends: StatusWebhookExecutor.create throws
\* for a type it does not know, formatPayload of the Discord executor throws,
\* fetch rejects, or the response is there (ok or not).
Outcome(call) ==
    IF call.type \notin WebhookTypes THEN "Invalid webhook type"
    ELSE IF call.type = "discord" /\ formatPayloadDiscord(call.status).throws # ""
    THEN formatPayloadDiscord(call.status).throws
    ELSE responds[call.url]

\* a delivery that is attempted once more after a response that is not ok
SettleRetries ==
    /\ pc # "exited"
    /\ \E k \in inflight :
         /\ posts' = [posts EXCEPT ![k] = Append(@, Outcome(sends[k]))]
         /\ inflight' = IF Outcome(sends[k]) # "2xx" /\ posts[k] = << >>
                        THEN inflight ELSE inflight \ {k}
    /\ UNCHANGED << file, worldVars, pc, cause, error, mainVars, streamVars, sends >>
    /\ UNCHANGED executorVars

\* an executeWebhookForStatus without its catch: the rejection of
\* executeStatusWebhook is nobody's
SettleUnhandled ==
    /\ pc # "exited"
    /\ \E k \in inflight :
         IF Outcome(sends[k]) \in {"2xx", "non-2xx"}
         THEN /\ posts' = [posts EXCEPT ![k] = Append(@, Outcome(sends[k]))]
              /\ inflight' = inflight \ {k}
              /\ UNCHANGED << file, pc, cause >>
         ELSE Uncaught
    /\ UNCHANGED << worldVars, error, mainVars, streamVars, sends >>
    /\ UNCHANGED executorVars

\* executeWebhookForStatus settles: executeStatusWebhook made its one POST and
\* logged the response, or it rejected (unknown type, formatter, fetch) and the
\* catch of executeWebhookForStatus took the error
Settle ==
    /\ pc # "exited"
    /\ \E k \in inflight :
         /\ posts' = [posts EXCEPT ![k] = Append(@, Outcome(sends[k]))]
         /\ inflight' = inflight \ {k}
    /\ UNCHANGED << file, worldVars, pc, cause, error, mainVars, streamVars, sends >>
    /\ UNCHANGED executorVars

\* executeStatusWebhook of the chat executor up to the call of fetch, for a
\* call that gets there: the 15 s of send for a status of this server with an
\* image, the colour lookups of formatPayload, and the POST is issued
Send(k) ==
    /\ pc # "exited"
    /\ k \in inflight
    /\ posts[k] = << >>
    /\ sends[k].type = "discord"
    /\ Outcome(sends[k]) \in Responses
    /\ posts' = [posts EXCEPT ![k] = << "pending" >>]
    /\ UNCHANGED << file, worldVars, pc, cause, error, mainVars, streamVars, sends, inflight >>
    /\ UNCHANGED executorVars

\* the fetch of an issued POST settles and executeWebhookForStatus with it
Respond(k) ==
    /\ pc # "exited"
    /\ k \in inflight
    /\ posts[k] = << "pending" >>
    /\ posts' = [posts EXCEPT ![k] = << Outcome(sends[k]) >>]
    /\ inflight' = inflight \ {k}
    /\ UNCHANGED << file, worldVars, pc, cause, error, mainVars, streamVars, sends >>
    /\ UNCHANGED executorVars

\* ------------------------------------- executeStatusWebhook, step by step

\* StatusWebhookExecutor.create(webhook.type, mastodon)
Create ==
    /\ execution.stage = "called"
    /\ execution' =
         IF execution.webhook.type \in WebhookTypes
         THEN [execution EXCEPT !.stage = "created", !.executor = execution.webhook.type]
         ELSE [execution EXCEPT !.stage = "caught", !.error = "Invalid webhook type"]
    /\ UNCHANGED << discord, file, worldVars, pc, cause, error, mainVars, streamVars, sends, posts,
                    inflight, account_colour_promise, promises, callers >>

\* StatusWebhookExecutorDiscord.send up to super.send: the 15 s of setTimeout
Wait ==
    /\ execution.stage = "created"
    /\ execution.executor = "discord"
    /\ waits(execution.status)
    /\ execution' = [execution EXCEPT !.stage = "waited", !.waited = TRUE]
    /\ UNCHANGED << discord, file, worldVars, pc, cause, error, mainVars, streamVars, sends, posts,
                    inflight, account_colour_promise, promises, callers >>

\* StatusWebhookExecutor.send: await this.formatPayload(status).  The colours
\* of the embeds are what getAccountColour resolved with for each level; it
\* never rejects.
FormatPayload ==
    /\ \/ execution.stage = "waited"
       \/ /\ execution.stage = "created"
          /\ ~(execution.executor = "discord" /\ waits(execution.status))
    /\ LET payload == IF execution.executor = "discord"
                      THEN formatPayloadDiscord(execution.status)
                      ELSE formatPayload(execution.status)
       IN execution' =
            IF payload.throws # ""
            THEN [execution EXCEPT !.stage = "caught", !.error = payload.throws]
            ELSE [execution EXCEPT !.stage = "formatted", !.payload = << payload >>]
    /\ UNCHANGED << discord, file, worldVars, pc, cause, error, mainVars, streamVars, sends, posts,
                    inflight, account_colour_promise, promises, callers >>

\* StatusWebhookExecutor.send: the fetch of webhook.url and what follows it
Fetch ==
    /\ execution.stage = "formatted"
    /\ execution' =
         IF responds[execution.webhook.url] = "network error"
         THEN [execution EXCEPT !.stage = "caught", !.error = "network error"]
         ELSE [execution EXCEPT !.stage = "delivered",
                                !.response = responds[execution.webhook.url]]
    /\ UNCHANGED << discord, file, worldVars, pc, cause, error, mainVars, streamVars, sends, posts,
                    inflight, account_colour_promise, promises, callers >>

\* ------------------------------------------ discord.ts: getAccountColour

\* key of getAccountColour
key(who) == server_url \o ":" \o who.id \o ":" \o who.avatar

\* a getAccountColour that does not look into the Map
getAccountColourAlwaysComputes(who) ==
    /\ promises' = Append(promises, [key |-> key(who), account |-> who,
                                     state |-> "pending", value |-> << >>])
    /\ account_colour_promise' =
         { e \in account_colour_promise : e.key # key(who) }
             \cup { [key |-> key(who), promise |-> Len(promises) + 1] }
    /\ callers' = Append(callers, [account |-> who, promise |-> Len(promises) + 1,
                                   colour |-> << >>])

\* getAccountColour: the promise of the Map if it has the key, else a new
\* promise, which getAccountColours computes and which is set in the Map
getAccountColour(who) ==
    IF \E e \in account_colour_promise : e.key = key(who)
    THEN /\ callers' = Append(callers,
                [account |-> who,
                 promise |-> (CHOOSE e \in account_colour_promise :
                                  e.key = key(who)).promise,
                 colour |-> << >>])
         /\ UNCHANGED << account_colour_promise, promises >>
    ELSE /\ promises' = Append(promises, [key |-> key(who), account |-> who,
                                          state |-> "pending", value |-> << >>])
         /\ account_colour_promise' =
              account_colour_promise \cup { [key |-> key(who), promise |-> Len(promises) + 1] }
         /\ callers' = Append(callers, [account |-> who, promise |-> Len(promises) + 1,
                                        colour |-> << >>])

\* a formatPayload (webhook.ts:84) or an account embed (discord.ts:628) asks
\* for the colour of an account and awaits it
AskColour ==
    /\ Len(callers) < MaxCalls
    /\ \E who \in ColourAccounts : getAccountColour(who)
    /\ UNCHANGED << discord, file, worldVars, pc, cause, error, mainVars, streamVars, sends, posts,
                    inflight, execution >>

\* getAccountColours settles: .then gives colours[0] or null, .catch gives null
Computed(p) ==
    /\ promises[p].state = "pending"
    /\ \E colour \in Colours :
         promises' = [promises EXCEPT ![p].state = "computed", ![p].value = << colour >>]
    /\ UNCHANGED << discord, file, worldVars, pc, cause, error, mainVars, streamVars, sends, posts,
                    inflight, execution, account_colour_promise, callers >>

\* a .finally that leaves the entry in the map
FinallyKeepsEntry(p) ==
    /\ promises[p].state = "computed"
    /\ promises' = [promises EXCEPT ![p].state = "fulfilled"]
    /\ UNCHANGED << discord, file, worldVars, pc, cause, error, mainVars, streamVars, sends, posts,
                    inflight, execution, account_colour_promise, callers >>

\* .finally(() => account_colour_promise.delete(key)), after which the promise
\* the callers hold is fulfilled
Finally(p) ==
    /\ promises[p].state = "computed"
    /\ account_colour_promise' = { e \in account_colour_promise : e.key # promises[p].key }
    /\ promises' = [promises EXCEPT ![p].state = "fulfilled"]
    /\ UNCHANGED << discord, file, worldVars, pc, cause, error, mainVars, streamVars, sends, posts,
                    inflight, execution, callers >>

\* a caller's await of the promise returns
Resume(c) ==
    /\ callers[c].colour = << >>
    /\ promises[callers[c].promise].state = "fulfilled"
    /\ callers' = [callers EXCEPT ![c].colour = promises[callers[c].promise].value]
    /\ UNCHANGED << discord, file, worldVars, pc, cause, error, mainVars, streamVars, sends, posts,
                    inflight, execution, account_colour_promise, promises >>

\* -------------------------------------------- discord.ts: the bot's commands

\* everything but the tables and the bot
besideBot == << file, token, timeline, feed, config, responds, inc, pc, cause, error,
                mainVars, streamVars, sends, posts, inflight,
                execution, account_colour_promise, promises, callers >>

\* the id SQLite gives a new row of a table whose id is INTEGER PRIMARY KEY:
\* one more than the largest id of the table
lastID(ids) == IF ids = {} THEN 1 ELSE Max(ids) + 1

\* the ids of the rows of a table
RowIds(rows) == { rows[i].id : i \in 1..Len(rows) }

\* what MastodonApi.fetch is answered: the status of the response, or that the
\* request failed, and the accounts of the body
NoUpstream == [status |-> "", accounts |-> << >>]

\* a command as handleInteraction or a confirm button starts it
NewCommand(kind, handle, q, upstream) ==
    [kind |-> kind, account_acct |-> handle, q |-> q, upstream |-> upstream,
     pc |-> IF kind = "lookup" THEN "findAccounts" ELSE "called",
     acct |-> << >>, discord_webhooks |-> {}, webhooks |-> {}, filter_accts |-> << >>,
     webhook_url |-> "", webhook_id |-> 0, thrown |-> "", accounts |-> << >>, reply |-> ""]

\* /^\d+$/.test(q)
Digits(q) ==
    /\ Len(q) > 0
    /\ \A i \in 1..Len(q) :
         SubSeq(q, i, i) \in {"0", "1", "2", "3", "4", "5", "6", "7", "8", "9"}

\* MastodonApi.fetch: it rejects when the request fails, throws an Error with
\* the status in its message when the response is not ok, else gives the body
MastodonApiFetch(upstream) ==
    IF upstream.status = "network error"
    THEN [throws |-> "TypeError: fetch failed", accounts |-> << >>]
    ELSE IF upstream.status # "200"
    THEN [throws |-> "Error: Non-200 status code: " \o upstream.status, accounts |-> << >>]
    ELSE [throws |-> "", accounts |-> upstream.accounts]

\* DiscordBot.findAccounts: for an id, the account, or nothing when the
\* request threw; else the accounts of the search, whose errors are thrown
findAccounts(q, upstream) ==
    IF Digits(q)
    THEN IF MastodonApiFetch(upstream).throws # ""
         THEN [throws |-> "", accounts |-> << >>]
         ELSE MastodonApiFetch(upstream)
    ELSE MastodonApiFetch(upstream)

\* handleLookupCommand, handleFollowCommand, handleUnfollowCommand up to the
\* return of findAccounts; what it throws is caught by handleInteraction
FindAccounts(c) ==
    /\ discord.commands[c].pc = "findAccounts"
    /\ LET found == findAccounts(discord.commands[c].q, discord.commands[c].upstream)
       IN discord' = [discord EXCEPT !.commands[c].accounts = found.accounts,
                                     !.commands[c].thrown = found.throws,
                                     !.commands[c].pc = "found"]
    /\ UNCHANGED << db, besideBot >>

\* the reply: the embed of handleErrorInInteraction, 'No results found.', or
\* what the command shows for the accounts
Reply(c) ==
    /\ discord.commands[c].pc = "found"
    /\ discord' = [discord EXCEPT
                     !.commands[c].reply =
                         IF discord.commands[c].thrown # "" THEN discord.commands[c].thrown
                         ELSE IF discord.commands[c].accounts = << >> THEN "No results found."
                         ELSE "accounts",
                     !.commands[c].pc = "done"]
    /\ UNCHANGED << db, besideBot >>

\* follow or unfollow is called with an account, after a command or a button
Command ==
    /\ Len(discord.commands) < MaxCommands
    /\ \E kind \in {"follow", "unfollow"}, handle \in { <<"a">>, <<"b", "@", "h">> } :
         discord' = [discord EXCEPT
                       !.commands = Append(@, NewCommand(kind, handle, "", NoUpstream))]
    /\ UNCHANGED << db, besideBot >>

\* follow, unfollow: acct, and getWebhooksForChannel of
\* getWebhooksForChannelActor: the webhooks Discord has for the channel
GetWebhooksForChannel(c) ==
    /\ discord.commands[c].pc = "called"
    /\ discord' = [discord EXCEPT
                     !.commands[c].acct = status_acct(discord.commands[c].account_acct,
                                                      account_host),
                     !.commands[c].discord_webhooks = discord.channel,
                     !.commands[c].pc = "webhooks"]
    /\ UNCHANGED << db, besideBot >>

\* getWebhooksForChannelActor: SELECT * FROM webhooks WHERE type = 'discord'
\* AND url = ..., for each webhook of the channel
SelectWebhooks(c) ==
    /\ discord.commands[c].pc = "webhooks"
    /\ discord' = [discord EXCEPT
                     !.commands[c].webhooks =
                         { w \in db.webhooks : /\ w.type = "discord"
                                               /\ w.url \in discord.commands[c].discord_webhooks },
                     !.commands[c].pc = "filter_accts"]
    /\ UNCHANGED << db, besideBot >>

\* getWebhooksForChannelActor: SELECT ... FROM webhook_filter_acct WHERE
\* webhook_id = ... AND acct = ...; then follow returns when the actor is
\* followed, unfollow when it is not
SelectFilterAccts(c) ==
    /\ discord.commands[c].pc = "filter_accts"
    /\ LET command == discord.commands[c]
           filter_accts ==
               SelectSeq(db.webhook_filter_acct,
                         LAMBDA f : /\ \E w \in command.webhooks : w.id = f.webhook_id
                                    /\ f.acct = command.acct)
           webhooks == { w \in command.webhooks :
                           \E i \in 1..Len(filter_accts) : filter_accts[i].webhook_id = w.id }
       IN discord' = [discord EXCEPT
                        !.commands[c].filter_accts = filter_accts,
                        !.commands[c].webhooks = webhooks,
                        !.commands[c].reply =
                            IF command.kind = "follow" /\ filter_accts # << >>
                            THEN "This actor is already being following in this channel."
                            ELSE IF command.kind = "unfollow" /\ filter_accts = << >>
                            THEN "This actor is not being following in this channel."
                            ELSE "",
                        !.commands[c].pc =
                            IF command.kind = "follow"
                            THEN IF filter_accts # << >> THEN "done" ELSE "getWebhookForChannel"
                            ELSE IF filter_accts = << >> THEN "done" ELSE "delete_filter_acct"]
    /\ UNCHANGED << db, besideBot >>

\* getWebhookForChannel: a webhook of the channel, if it has one
GetWebhookForChannel(c) ==
    /\ discord.commands[c].pc = "getWebhookForChannel"
    /\ IF discord.channel = {}
       THEN discord' = [discord EXCEPT !.commands[c].pc = "createWebhook"]
       ELSE \E url \in discord.channel :
              discord' = [discord EXCEPT !.commands[c].webhook_url = url,
                                         !.commands[c].pc = "select_webhook"]
    /\ UNCHANGED << db, besideBot >>

\* getWebhookForChannel: guild.channels.createWebhook
CreateWebhook(c) ==
    /\ discord.commands[c].pc = "createWebhook"
    /\ LET url == "w" \o ToString(Cardinality(discord.channel) + 1)
       IN discord' = [discord EXCEPT !.channel = @ \cup {url},
                                     !.commands[c].webhook_url = url,
                                     !.commands[c].pc = "select_webhook"]
    /\ UNCHANGED << db, besideBot >>

\* getWebhookIdForChannel: SELECT * FROM webhooks WHERE type = 'discord' AND
\* url = ...; the id of the row if there is one
SelectWebhook(c) ==
    /\ discord.commands[c].pc = "select_webhook"
    /\ LET rows == { w \in db.webhooks : /\ w.type = "discord"
                                         /\ w.url = discord.commands[c].webhook_url }
       IN discord' =
            IF rows = {}
            THEN [discord EXCEPT !.commands[c].pc = "insert_webhook"]
            ELSE [discord EXCEPT
                    !.commands[c].webhook_id = Min({ w.id : w \in rows }),
                    !.commands[c].pc = "insert_filter_acct"]
    /\ UNCHANGED << db, besideBot >>

\* getWebhookIdForChannel: INSERT INTO webhooks (type, url) VALUES ('discord',
\* ...), and result.lastID
InsertWebhook(c) ==
    /\ discord.commands[c].pc = "insert_webhook"
    /\ LET id == lastID({ w.id : w \in db.webhooks })
       IN /\ db' = [db EXCEPT !.webhooks =
                        @ \cup { [id |-> id, type |-> "discord",
                                  url |-> discord.commands[c].webhook_url] }]
          /\ discord' = [discord EXCEPT !.commands[c].webhook_id = id,
                                        !.commands[c].pc = "insert_filter_acct"]
    /\ UNCHANGED besideBot

\* follow: INSERT INTO webhook_filter_acct (webhook_id, acct)
InsertFilterAcct(c) ==
    /\ discord.commands[c].pc = "insert_filter_acct"
    /\ db' = [db EXCEPT !.webhook_filter_acct =
                 Append(@, [id |-> lastID(RowIds(db.webhook_filter_acct)),
                            webhook_id |-> discord.commands[c].webhook_id,
                            acct |-> discord.commands[c].acct])]
    /\ discord' = [discord EXCEPT !.commands[c].pc = "follow"]
    /\ UNCHANGED besideBot

\* follow: the follow request, whose error is caught, and the reply
Follow(c) ==
    /\ discord.commands[c].pc = "follow"
    /\ \E reply \in {"Following", "A follow request has been sent",
                     "The Mastodon bot was unable to send a follow request"} :
         discord' = [discord EXCEPT !.commands[c].reply = reply,
                                    !.commands[c].pc = "done"]
    /\ UNCHANGED << db, besideBot >>

\* where unfollow goes on: the next webhook of its loop, or the reply
NextWebhook(webhooks) == IF webhooks = {} THEN "unfollowed" ELSE "count_filter_accts"

\* the webhook the loop of unfollow is at
Current(webhooks) == CHOOSE w \in webhooks : \A x \in webhooks : w.id <= x.id

\* unfollow: DELETE FROM webhook_filter_acct WHERE id = ..., for one of the
\* rows it found
DeleteFilterAcct(c) ==
    /\ discord.commands[c].pc = "delete_filter_acct"
    /\ LET filter_acct == Head(discord.commands[c].filter_accts)
           rest == Tail(discord.commands[c].filter_accts)
       IN /\ db' = [db EXCEPT !.webhook_filter_acct =
                        SelectSeq(@, LAMBDA f : f.id # filter_acct.id)]
          /\ discord' = [discord EXCEPT
                           !.commands[c].filter_accts = rest,
                           !.commands[c].pc = IF rest # << >> THEN "delete_filter_acct"
                                              ELSE NextWebhook(discord.commands[c].webhooks)]
    /\ UNCHANGED besideBot

\* unfollow: SELECT COUNT(*) FROM webhook_filter_acct WHERE webhook_id = ...
CountFilterAccts(c) ==
    /\ discord.commands[c].pc = "count_filter_accts"
    /\ LET webhook == Current(discord.commands[c].webhooks)
           count == Len(SelectSeq(db.webhook_filter_acct,
                                  LAMBDA f : f.webhook_id = webhook.id))
       IN discord' =
            IF count # 0
            THEN [discord EXCEPT
                    !.commands[c].webhooks = @ \ {webhook},
                    !.commands[c].pc = NextWebhook(discord.commands[c].webhooks \ {webhook})]
            ELSE [discord EXCEPT !.commands[c].pc = "count_filter_hosts"]
    /\ UNCHANGED << db, besideBot >>

\* unfollow: SELECT COUNT(*) FROM webhook_filter_host WHERE webhook_id = ...
CountFilterHosts(c) ==
    /\ discord.commands[c].pc = "count_filter_hosts"
    /\ LET webhook == Current(discord.commands[c].webhooks)
           count == Len(SelectSeq(db.webhook_filter_host,
                                  LAMBDA f : f.webhook_id = webhook.id))
       IN discord' =
            IF count # 0
            THEN [discord EXCEPT
                    !.commands[c].webhooks = @ \ {webhook},
                    !.commands[c].pc = NextWebhook(discord.commands[c].webhooks \ {webhook})]
            ELSE [discord EXCEPT !.commands[c].pc = "delete_webhook"]
    /\ UNCHANGED << db, besideBot >>

\* unfollow: DELETE FROM webhooks WHERE id = ...
DeleteWebhook(c) ==
    /\ discord.commands[c].pc = "delete_webhook"
    /\ LET webhook == Current(discord.commands[c].webhooks)
       IN /\ db' = [db EXCEPT !.webhooks = { w \in @ : w.id # webhook.id }]
          /\ discord' = [discord EXCEPT
                           !.commands[c].webhooks = @ \ {webhook},
                           !.commands[c].pc =
                               NextWebhook(discord.commands[c].webhooks \ {webhook})]
    /\ UNCHANGED besideBot

\* unfollow: the reply
Unfollowed(c) ==
    /\ discord.commands[c].pc = "unfollowed"
    /\ discord' = [discord EXCEPT !.commands[c].reply = "Unfollowed",
                                  !.commands[c].pc = "done"]
    /\ UNCHANGED << db, besideBot >>

\* ------------------------------------------------- saved state, process end

\* setInterval(() => updateSavedState(), 60000)
Snapshot ==
    /\ pc = "live"
    /\ file' = Cursor
    /\ UNCHANGED << worldVars, pc, cause, error, mainVars, streamVars, sends, posts, inflight >>
    /\ UNCHANGED executorVars

\* nothing keeps the process alive, or main() rejected
Ending ==
    \/ pc = "rejected"
    \/ pc = "returned" /\ inflight = {}
    \/ /\ pc = "live" /\ inflight = {} /\ routing = << >>
       /\ \/ stream = "ws" /\ closed /\ \A i \in 1..Len(sockets) : sockets[i].state = "closed"
          \/ stream = "es" /\ events = "closed"

\* process.on('exit', () => updateSavedState(true)).  Before the const stream
\* of main() is initialized the handler reads an uninitialized binding: it
\* throws and writes nothing, or reads undefined, as the build has it.
Exit ==
    /\ Ending
    /\ \/ file' = Cursor
       \/ stream = "none" /\ file' = file
    /\ pc' = "exited"
    /\ cause' = IF pc = "live" THEN "shutdown" ELSE pc
    /\ inflight' = {}
    /\ posts' = [k \in 1..Len(posts) |-> << >>]
    /\ UNCHANGED << worldVars, error, mainVars, streamVars, sends >>
    /\ UNCHANGED executorVars

\* the process is killed or the machine stops: no exit handler runs
Kill ==
    /\ pc # "exited"
    /\ pc' = "exited"
    /\ cause' = "killed"
    /\ inflight' = {}
    /\ posts' = [k \in 1..Len(posts) |-> << >>]
    /\ UNCHANGED << file, worldVars, error, mainVars, streamVars, sends >>
    /\ UNCHANGED executorVars

\* SIGINT or SIGTERM while main() has not registered its handlers (it does so
\* after the stream is created): the default disposition of the signal ends
\* the process, and no exit handler runs
Interrupt ==
    /\ pc \in {"boot", "account", "fetch", "body", "route", "returned", "create_stream"}
    /\ pc' = "exited"
    /\ cause' = "signal"
    /\ inflight' = {}
    /\ posts' = [k \in 1..Len(posts) |-> << >>]
    /\ UNCHANGED << file, worldVars, error, mainVars, streamVars, sends >>
    /\ UNCHANGED executorVars

\* the process is started again on the same data directory
Restart ==
    /\ pc = "exited"
    /\ inc < MaxRestarts
    /\ inc' = inc + 1
    /\ pc' = "boot"
    /\ cause' = "running"
    /\ error' = ""
    /\ state_last_status_id' = 0
    /\ account' = ""
    /\ gen_last_status_id' = 0
    /\ statuses' = << >>
    /\ pos' = 1
    /\ fetched' = << >>
    /\ visited' = << >>
    /\ stream' = "none"
    /\ last_status_id' = 0
    /\ account_id' = ""
    /\ closed' = FALSE
    /\ socket' = 0
    /\ sockets' = << >>
    /\ events' = "none"
    /\ handled' = 0
    /\ routing' = << >>
    /\ observed' = << >>
    /\ UNCHANGED << file, token, timeline, feed, config, db, responds, sends, posts, inflight >>
    /\ UNCHANGED executorVars

\* ------------------------------------------------------ the specifications

\* main() from its start through gap recovery to the creation of the stream,
\* the end of the process and its restart
NextRecovery ==
    \/ ReadState
    \/ GetAccount
    \/ FetchPage
    \/ FetchFails
    \/ MissedStatus
    \/ MissedWebhooks
    \/ CreateStream
    \/ Settle
    \/ Snapshot
    \/ Exit
    \/ Kill
    \/ Interrupt
    \/ Restart

\* the stream clients of one process: the connections, the events they
\* deliver and the cursor, up to the point where handleStatus waits for the
\* webhooks of a status
NextStream ==
    \/ CreateStream
    \/ \E i \in 1..Len(sockets) : WsOpen(i)
    \/ \E i \in 1..Len(sockets) : WsClose(i)
    \/ \E i \in 1..Len(sockets) : WsMessage(i)
    \/ Shutdown
    \/ EsOpen
    \/ EsError
    \/ EsMessage
    \/ Exit

Next == NextRecovery \/ NextStream \/ LiveWebhooks

\* main() after a gap recovery that found nothing new (or no saved state)
InitStream ==
    /\ file \in 0..MaxCursor
    /\ token \in BOOLEAN
    /\ timeline = {}
    /\ feed = { s \in Statuses : s.visibility = "public" }
    /\ config = config_webhooks
    /\ db = database
    /\ responds = [u \in Urls |-> "2xx"]
    /\ inc = 0
    /\ pc = "create_stream"
    /\ cause = "running"
    /\ error = ""
    /\ state_last_status_id = file
    /\ account = IF token /\ file # 0 THEN BotAccountId ELSE ""
    /\ gen_last_status_id = file
    /\ statuses = << >>
    /\ pos = 1
    /\ fetched = IF file # 0 THEN << [min_id |-> file, length |-> 0] >> ELSE << >>
    /\ visited = << >>
    /\ stream = "none"
    /\ last_status_id = 0
    /\ account_id = ""
    /\ closed = FALSE
    /\ socket = 0
    /\ sockets = << >>
    /\ events = "none"
    /\ handled = 0
    /\ routing = << >>
    /\ observed = << >>
    /\ sends = << >>
    /\ posts = << >>
    /\ inflight = {}
    /\ NoExecution

\* one process without saved state whose stream client is connected (the
\* multiplexed client has subscribed), at the moment the server is about to send
\* the events of one status; every endpoint answers in a way of its own
InitDelivery ==
    /\ file = 0
    /\ token \in BOOLEAN
    /\ timeline = {}
    /\ \E s \in StreamStatuses : feed = {s}
    /\ config = config_webhooks
    /\ db = database
    /\ responds \in [Urls -> Responses]
    /\ inc = 0
    /\ pc = "live"
    /\ cause = "running"
    /\ error = ""
    /\ state_last_status_id = 0
    /\ account = ""
    /\ gen_last_status_id = 0
    /\ statuses = << >>
    /\ pos = 1
    /\ fetched = << >>
    /\ visited = << >>
    /\ stream = IF token THEN "ws" ELSE "es"
    /\ last_status_id = 0
    /\ account_id = IF token THEN BotAccountId ELSE ""
    /\ closed = FALSE
    /\ socket = IF token THEN 1 ELSE 0
    /\ sockets = IF token
                 THEN handleOpen(<< [NewSocket EXCEPT !.state = "open", !.opened = TRUE,
                                                      !.interval = TRUE] >>, 1)
                 ELSE << >>
    /\ events = IF token THEN "none" ELSE "open"
    /\ handled = 0
    /\ routing = << >>
    /\ observed = << >>
    /\ sends = << >>
    /\ posts = << >>
    /\ inflight = {}
    /\ NoExecution

\* the multiplexed client after handleStatus accepted the first status the
\* server sent (on the public stream): the status waits for its webhooks, for
\* any author handle, any rows in the tables and any webhooks.yaml
InitRouting ==
    /\ file = 0
    /\ token = TRUE
    /\ timeline = {}
    /\ \E s \in RoutedStatuses :
         /\ feed = {s}
         /\ routing = << s >>
         /\ observed = << [event |-> <<"public">>, status |-> s] >>
         /\ last_status_id = s.id
    /\ config \in Configs
    /\ db \in Databases
    /\ responds = [u \in Urls |-> "2xx"]
    /\ inc = 0
    /\ pc = "live"
    /\ cause = "running"
    /\ error = ""
    /\ state_last_status_id = 0
    /\ account = ""
    /\ gen_last_status_id = 0
    /\ statuses = << >>
    /\ pos = 1
    /\ fetched = << >>
    /\ visited = << >>
    /\ stream = "ws"
    /\ account_id = BotAccountId
    /\ closed = FALSE
    /\ socket = 1
    /\ sockets = handleOpen(<< [NewSocket EXCEPT !.state = "open", !.opened = TRUE,
                                                 !.interval = TRUE, !.received = 1] >>, 1)
    /\ events = "none"
    /\ handled = 1
    /\ sends = << >>
    /\ posts = << >>
    /\ inflight = {}
    /\ NoExecution

\* the variables of a process whose multiplexed client is connected and has
\* subscribed, before any frame
Connected ==
    /\ file = 0
    /\ token = TRUE
    /\ timeline = {}
    /\ inc = 0
    /\ pc = "live"
    /\ cause = "running"
    /\ error = ""
    /\ state_last_status_id = 0
    /\ account = ""
    /\ gen_last_status_id = 0
    /\ statuses = << >>
    /\ pos = 1
    /\ fetched = << >>
    /\ visited = << >>
    /\ stream = "ws"
    /\ last_status_id = 0
    /\ account_id = BotAccountId
    /\ closed = FALSE
    /\ socket = 1
    /\ sockets = handleOpen(<< [NewSocket EXCEPT !.state = "open", !.opened = TRUE,
                                                 !.interval = TRUE] >>, 1)
    /\ events = "none"
    /\ handled = 0
    /\ routing = << >>
    /\ observed = << >>
    /\ sends = << >>
    /\ posts = << >>
    /\ inflight = {}

\* executeStatusWebhook was called with a webhook and a status, for any of
\* the statuses and types, the endpoint answering in any way
InitExecutor ==
    /\ Connected
    /\ feed = {}
    /\ config = config_webhooks
    /\ db = database
    /\ \E response \in Responses : responds = [u \in Urls |-> response]
    /\ \E webhook \in ExecutedWebhooks, status \in ExecutedStatuses :
         execution = [stage |-> "called", webhook |-> webhook, status |-> status,
                      executor |-> "", waited |-> FALSE, payload |-> << >>,
                      error |-> "", response |-> ""]
    /\ account_colour_promise = {}
    /\ promises = << >>
    /\ callers = << >>
    /\ discord = NoBot

\* the connected multiplexed client when the server is about to send the events
\* of one status of the account a, which three endpoints of webhooks.yaml match
InitIsolation ==
    /\ Connected
    /\ \E s \in StatusesOfA : feed = {s}
    /\ config = config_three_types
    /\ db = database
    /\ \E r1, r2 \in Responses : responds = [u \in Urls |-> IF u = "u1" THEN r1
                                                            ELSE IF u = "u2" THEN r2
                                                            ELSE "2xx"]
    /\ NoExecution

NextIsolation ==
    \/ \E i \in 1..Len(sockets) : WsMessage(i)
    \/ LiveWebhooks
    \/ Settle

NextExecutor == Create \/ Wait \/ FormatPayload \/ Fetch

\* the Map of getAccountColour is empty when the module is loaded
InitColour ==
    /\ Connected
    /\ feed = {}
    /\ config = config_webhooks
    /\ db = database
    /\ responds = [u \in Urls |-> "2xx"]
    /\ NoExecution

NextColour ==
    \/ AskColour
    \/ \E p \in 1..Len(promises) : Computed(p)
    \/ \E p \in 1..Len(promises) : Finally(p)
    \/ \E c \in 1..Len(callers) : Resume(c)

\* the routing of the status that waits
NextRouting == LiveWebhooks

\* the events of a connected stream client and the deliveries they lead to
NextDelivery ==
    \/ \E i \in 1..Len(sockets) : WsMessage(i)
    \/ EsMessage
    \/ LiveWebhooks
    \/ Settle

Spec == Init /\ [][Next]_vars
SpecRecovery == Init /\ [][NextRecovery]_vars
SpecStream == InitStream /\ [][NextStream]_vars
SpecDelivery == InitDelivery /\ [][NextDelivery]_vars
SpecRouting == InitRouting /\ [][NextRouting]_vars
SpecIsolation == InitIsolation /\ [][NextIsolation]_vars
SpecExecutor == InitExecutor /\ [][NextExecutor]_vars
SpecColour == InitColour /\ [][NextColour]_vars

\* main() when it creates the stream client, with a server that sends no event
InitKeepalive ==
    /\ file \in 0..MaxCursor
    /\ token \in BOOLEAN
    /\ timeline = {}
    /\ feed = {}
    /\ config = config_webhooks
    /\ db = database
    /\ responds = [u \in Urls |-> "2xx"]
    /\ inc = 0
    /\ pc = "create_stream"
    /\ cause = "running"
    /\ error = ""
    /\ state_last_status_id = file
    /\ account = IF token /\ file # 0 THEN BotAccountId ELSE ""
    /\ gen_last_status_id = file
    /\ statuses = << >>
    /\ pos = 1
    /\ fetched = IF file # 0 THEN << [min_id |-> file, length |-> 0] >> ELSE << >>
    /\ visited = << >>
    /\ stream = "none"
    /\ last_status_id = 0
    /\ account_id = ""
    /\ closed = FALSE
    /\ socket = 0
    /\ sockets = << >>
    /\ events = "none"
    /\ handled = 0
    /\ routing = << >>
    /\ observed = << >>
    /\ sends = << >>
    /\ posts = << >>
    /\ inflight = {}
    /\ NoExecution

\* the connections of the stream client and the timer of each
NextKeepalive ==
    \/ CreateStream
    \/ \E i \in 1..Len(sockets) : WsOpen(i)
    \/ \E i \in 1..Len(sockets) : WsClose(i)
    \/ \E i \in 1..Len(sockets) : Ping(i)
    \/ Shutdown
    \/ EsOpen
    \/ EsError
    \/ Exit

SpecKeepalive == InitKeepalive /\ [][NextKeepalive]_vars

\* one process whose stream client is connected, after a gap recovery that
\* found nothing new (or without saved state), with a server that sends events
\* about a status it already has and no new status
InitQuiet ==
    /\ file \in 0..MaxCursor
    /\ token \in BOOLEAN
    /\ \E s \in StreamStatuses : timeline = {s}
    /\ feed = {}
    /\ config = config_webhooks
    /\ db = database
    /\ responds = [u \in Urls |-> "2xx"]
    /\ inc = 0
    /\ pc = "live"
    /\ cause = "running"
    /\ error = ""
    /\ state_last_status_id = file
    /\ account = IF token /\ file # 0 THEN BotAccountId ELSE ""
    /\ gen_last_status_id = file
    /\ statuses = << >>
    /\ pos = 1
    /\ fetched = IF file # 0 THEN << [min_id |-> file, length |-> 0] >> ELSE << >>
    /\ visited = << >>
    /\ stream = IF token THEN "ws" ELSE "es"
    /\ last_status_id = 0
    /\ account_id = IF token THEN BotAccountId ELSE ""
    /\ closed = FALSE
    /\ socket = IF token THEN 1 ELSE 0
    /\ sockets = IF token
                 THEN handleOpen(<< [NewSocket EXCEPT !.state = "open", !.opened = TRUE,
                                                      !.interval = TRUE] >>, 1)
                 ELSE << >>
    /\ events = IF token THEN "none" ELSE "open"
    /\ handled = 0
    /\ routing = << >>
    /\ observed = << >>
    /\ sends = << >>
    /\ posts = << >>
    /\ inflight = {}
    /\ NoExecution

\* the events of a connected stream client
NextQuiet ==
    \/ \E i \in 1..Len(sockets) : WsMessage(i)
    \/ EsMessage

SpecQuiet == InitQuiet /\ [][NextQuiet]_vars

\* the connected multiplexed client when the server is about to send two
\* statuses of the account a, which the chat endpoint of webhooks.yaml matches
InitOrder ==
    /\ Connected
    /\ \E first, second \in AttachmentsOfA :
         feed = { StatusOfA(1, first), StatusOfA(2, second) }
    /\ config = config_discord
    /\ db = database
    /\ \E response \in Responses : responds = [u \in Urls |-> response]
    /\ NoExecution

\* the events of the two statuses and their deliveries, the POST and its
\* response apart
NextOrder ==
    \/ \E i \in 1..Len(sockets) : WsMessage(i)
    \/ LiveWebhooks
    \/ \E k \in 1..Len(sends) : Send(k)
    \/ \E k \in 1..Len(sends) : Respond(k)

SpecOrder == InitOrder /\ [][NextOrder]_vars

\* the rows of the tables and the webhooks of the channel when commands come:
\* nothing yet; a webhook of the channel that no row is about; the accounts a
\* and b followed in the channel, the host h as well
BotDatabases ==
    { [channel |-> {}, webhooks |-> {}, webhook_filter_acct |-> << >>,
       webhook_filter_host |-> << >>],
      [channel |-> {"w1"}, webhooks |-> {}, webhook_filter_acct |-> << >>,
       webhook_filter_host |-> << >>],
      [channel |-> {"w1"}, webhooks |-> { [id |-> 1, type |-> "discord", url |-> "w1"] },
       webhook_filter_acct |-> << [id |-> 1, webhook_id |-> 1, acct |-> <<"a", "@", "l">>] >>,
       webhook_filter_host |-> << >>],
      [channel |-> {"w1"}, webhooks |-> { [id |-> 1, type |-> "discord", url |-> "w1"] },
       webhook_filter_acct |-> << [id |-> 1, webhook_id |-> 1, acct |-> <<"a", "@", "l">>],
                                  [id |-> 2, webhook_id |-> 1, acct |-> <<"b", "@", "h">>] >>,
       webhook_filter_host |-> << [id |-> 1, webhook_id |-> 1, host |-> <<"h">>] >>] }

\* the bot of a running process before a command
InitBot ==
    /\ Connected
    /\ feed = {}
    /\ config = << >>
    /\ responds = [u \in Urls |-> "2xx"]
    /\ execution = [stage |-> "none"]
    /\ account_colour_promise = {}
    /\ promises = << >>
    /\ callers = << >>
    /\ \E d \in BotDatabases :
         /\ db = [webhooks |-> d.webhooks, webhook_filter_acct |-> d.webhook_filter_acct,
                  webhook_filter_host |-> d.webhook_filter_host]
         /\ discord = [channel |-> d.channel, commands |-> << >>]

\* follow and unfollow commands of one channel, each at its own pace
NextBot ==
    \/ Command
    \/ \E c \in 1..Len(discord.commands) : GetWebhooksForChannel(c)
    \/ \E c \in 1..Len(discord.commands) : SelectWebhooks(c)
    \/ \E c \in 1..Len(discord.commands) : SelectFilterAccts(c)
    \/ \E c \in 1..Len(discord.commands) : GetWebhookForChannel(c)
    \/ \E c \in 1..Len(discord.commands) : CreateWebhook(c)
    \/ \E c \in 1..Len(discord.commands) : SelectWebhook(c)
    \/ \E c \in 1..Len(discord.commands) : InsertWebhook(c)
    \/ \E c \in 1..Len(discord.commands) : InsertFilterAcct(c)
    \/ \E c \in 1..Len(discord.commands) : Follow(c)
    \/ \E c \in 1..Len(discord.commands) : DeleteFilterAcct(c)
    \/ \E c \in 1..Len(discord.commands) : CountFilterAccts(c)
    \/ \E c \in 1..Len(discord.commands) : CountFilterHosts(c)
    \/ \E c \in 1..Len(discord.commands) : DeleteWebhook(c)
    \/ \E c \in 1..Len(discord.commands) : Unfollowed(c)

SpecBot == InitBot /\ [][NextBot]_vars

\* what a command is given to look up, and what the server answers
Queries == {"1", "12", "a", "1a", "a@h", ""}
Upstreams ==
    [status : {"200", "404", "500", "network error"},
     accounts : { << >>, << [id |-> "1", acct |-> <<"a">>] >> }]

\* a lookup, follow or unfollow command was given an id or a name; for an id
\* the server answers 200 with the account
InitLookup ==
    /\ Connected
    /\ feed = {}
    /\ config = << >>
    /\ db = database
    /\ responds = [u \in Urls |-> "2xx"]
    /\ execution = [stage |-> "none"]
    /\ account_colour_promise = {}
    /\ promises = << >>
    /\ callers = << >>
    /\ \E kind \in {"lookup", "follow", "unfollow"}, q \in Queries, upstream \in Upstreams :
         /\ (Digits(q) /\ upstream.status = "200") => upstream.accounts # << >>
         /\ discord = [channel |-> {},
                       commands |-> << [NewCommand(kind, << >>, q, upstream)
                                           EXCEPT !.pc = "findAccounts"] >>]

NextLookup ==
    \/ \E c \in 1..Len(discord.commands) : FindAccounts(c)
    \/ \E c \in 1..Len(discord.commands) : Reply(c)

SpecLookup == InitLookup /\ [][NextLookup]_vars

\* ----------------------------------------------------------- the claims

Range(seq) == { seq[k] : k \in 1..Len(seq) }

\* the elements of a set of numbers, smallest first
RECURSIVE Ascending(_)
Ascending(S) ==
    IF S = {} THEN << >>
    ELSE LET least == CHOOSE x \in S : \A y \in S : x <= y
         IN << least >> \o Ascending(S \ {least})

\* the ids of the timeline above the cursor the recovery of this process
\* started from
Missed == { s.id : s \in { t \in timeline : t.id > fetched[1].min_id } }

\* C1: in the live path the cursor (the value a snapshot would persist) is
\* never rewritten to a smaller id than the one it held, whatever the order
\* in which status events arrive.
C1_CursorNeverDecreases ==
    [][pc = "live" /\ pc' = "live" => Cursor' >= Cursor]_vars

\* C2: once gap recovery has ended without a failed request, it has been given
\* every status of the timeline above the cursor it started from, each once and
\* in ascending id order, and the cursor is the largest of these ids.
C2_RecoveryVisitsAllAscending ==
    (pc \in {"create_stream", "live", "returned"} /\ fetched # << >>)
        => /\ visited = Ascending(Missed)
           /\ Missed # {} => Cursor = Max(Missed)

\* C3: an empty page is the last request of the pagination loop: the loop is
\* left at it without a further fetch, and without a timeline error.
C3_EmptyPageEndsRecovery ==
    \A k \in 1..Len(fetched) :
        fetched[k].length = 0
            => /\ k = Len(fetched)
               /\ pc \notin {"fetch", "body", "route"}
               /\ error # "timeline"

\* C3 witness: after a page with statuses, an empty follow-up page ended the
\* recovery and the stream was created.
C3_Witness ==
    /\ Len(fetched) >= 2
    /\ fetched[Len(fetched)].length = 0
    /\ fetched[1].length > 0
    /\ pc = "live"

\* C4: a process that ended by itself after a gap recovery without a failed
\* request was given every status above its cursor and created its stream
\* client: a status the visibility test discards does not end the recovery.
C4_SkippedStatusOnlySkipsItself ==
    (pc = "exited" /\ cause \notin {"killed", "signal", "rejected"} /\ fetched # << >>)
        => /\ stream # "none"
           /\ Range(visited) = Missed

\* C5: a status whose webhooks a process executed during gap recovery is not
\* executed again by the gap recovery of a later process: after a restart only
\* larger ids are routed.
C5_NoReprocessingAfterRestart ==
    \A i, j \in 1..Len(sends) :
        (sends[i].inc < sends[j].inc /\ sends[i].src = "missed" /\ sends[j].src = "missed")
            => sends[j].id > sends[i].id

\* C6 as claimed: while gap recovery runs, the cursor holds the id of a status
\* of this recovery only when every delivery attempt for that status has
\* completed.
C6_CursorAfterDeliveries ==
    \A s \in timeline :
        (/\ pc \in {"fetch", "body", "route"}
         /\ s.id \in Range(visited)
         /\ state_last_status_id = s.id)
            => \A c \in Range(Calls(s, "missed")) :
                   \E k \in 1..Len(sends) : sends[k] = c /\ k \notin inflight

\* the status of the timeline with this id
StatusOf(id) == CHOOSE s \in timeline : s.id = id

\* C6 as amended: during gap recovery the cursor is advanced to a status's id
\* when the processing of the status starts, before any of its delivery
\* attempts is started; the next status or page is started once every delivery
\* attempt of the status has been started, completed or not.
C6_CursorBeforeDeliveriesStarted ==
    (pc \in {"fetch", "body", "route"} /\ visited # << >>)
        => LET last == visited[Len(visited)] IN
           /\ state_last_status_id = last
           /\ pc = "route"
                => ~\E k \in 1..Len(sends) : sends[k].inc = inc /\ sends[k].id = last
           /\ \A n \in 1..Len(visited) :
                  (n < Len(visited) \/ pc # "route")
                      => \A c \in Range(Calls(StatusOf(visited[n]), "missed")) :
                             \E k \in 1..Len(sends) : sends[k] = c

\* C6 witness: the processing of a status has started, its id is the cursor,
\* and a delivery of the status before it has not completed; that status had
\* two webhooks.
C6_Witness ==
    /\ pc = "route"
    /\ Len(visited) >= 2
    /\ state_last_status_id = visited[Len(visited)]
    /\ Len(Calls(StatusOf(visited[Len(visited) - 1]), "missed")) = 2
    /\ \E k \in inflight :
           sends[k].inc = inc /\ sends[k].id = visited[Len(visited) - 1]

\* C7: a process whose gap recovery failed on a timeline request has still
\* created its stream client when it ends.
C7_FetchFailureLeavesLivePath ==
    (pc = "exited" /\ cause = "rejected" /\ error = "timeline") => stream # "none"

\* C8: once close() was called on the stream client no connection is created
\* any more, whatever the transport delivers afterwards.
C8_ClosedSuppressesReconnect ==
    [][/\ closed => (closed' /\ Len(sockets') = Len(sockets))
       /\ events = "closed" => events' = "closed"]_vars

\* C8 witness: the close event of a connection the caller closed was handled
\* and left the client without a socket.
C8_Witness ==
    /\ closed
    /\ socket = 0
    /\ Len(sockets) >= 2
    /\ sockets[Len(sockets)].state = "closed"

C10_SubscribesOnOpen ==
    \A i \in 1..Len(sockets) :
        IF sockets[i].opened
        THEN /\ Len(sockets[i].sent) = Len(streams)
             /\ \A name \in Range(streams) :
                    Cardinality({ k \in 1..Len(sockets[i].sent) :
                                    sockets[i].sent[k] = [type |-> "subscribe", stream |-> name] }) = 1
        ELSE sockets[i].sent = << >> /\ sockets[i].received = 0

\* C10 witness: a reconnection opened and an event of it was handled.
C10_Witness ==
    \E i \in 2..Len(sockets) : sockets[i].opened /\ sockets[i].received > 0

\* ---------------------------------------------- the claims, continued

\* C11: a transport message that cannot be decoded (the frame is not JSON, or
\* the payload in it is not) is dropped and is never fatal: no process ends on
\* an exception that a message listener let out.
C11_UndecodableFrameIsDropped ==
    pc = "exited" => cause # "uncaught"

\* C12: the cursor is updated on every observed status: after handleStatus was
\* called with a status, discarded by one of its two tests or not, the cursor
\* of the stream is the id of that status.
C12_CursorFollowsEveryObservedStatus ==
    (pc = "live" /\ observed # << >>)
        => last_status_id = observed[Len(observed)].status.id

\* C13: a process that a shutdown signal ended, during gap recovery or while
\* its stream ran, has closed its transport and has written the cursor: after
\* it processed statuses, state.json holds the cursor it had reached, the id of
\* the status whose processing it started last.
C13_ShutdownWritesCursor ==
    (pc = "exited" /\ cause \in {"signal", "shutdown"} /\ (visited # << >> \/ observed # << >>))
        => /\ file = Cursor
           /\ stream = "ws" => closed
           /\ stream = "es" => events = "closed"

\* the status the routing was given, once its webhooks were executed
Routed == { observed[k].status : k \in { n \in 1..Len(observed) : routing = << >> } }

\* C14: for a handle without '@' the canonical handle is the handle, '@' and
\* the configured account host, and the matching host is the configured
\* account host; a handle with '@' is its own canonical handle, and the
\* matching host is what follows its last '@': the handle ends with '@' and the
\* host, and the host holds no '@'.
C14_HandleCanonicalization ==
    \A k \in 1..Len(observed) :
        LET handle == observed[k].status.account.acct
            canonical == status_acct(handle, account_host)
            host == status_acct_host(handle, account_host)
        IN IF \A i \in 1..Len(handle) : handle[i] # "@"
           THEN /\ canonical = handle \o <<"@">> \o account_host
                /\ host = account_host
           ELSE /\ canonical = handle
                /\ Len(host) < Len(handle)
                /\ handle = SubSeq(handle, 1, Len(handle) - Len(host) - 1) \o <<"@">> \o host
                /\ \A i \in 1..Len(host) : host[i] # "@"

\* C14 witness: the status of a handle without '@' was routed to the endpoint
\* configured for the handle with the account host appended.
C14_Witness ==
    /\ \E s \in Routed : s.account.acct = <<"a">>
    /\ \E k \in 1..Len(sends) : sends[k].url = "u1"
    /\ config = config_webhooks

\* C15: a persisted endpoint that acct rows or host rows match for a status, in
\* any number and of both kinds, is given to executeWebhookForStatus exactly
\* once for that status.
C15_PersistedEndpointRoutedOnce ==
    \A s \in Routed :
        LET acct == status_acct(s.account.acct, account_host)
            host == status_acct_host(s.account.acct, account_host)
            rules(w) ==
                Cardinality({ i \in 1..Len(db.webhook_filter_acct) :
                                /\ db.webhook_filter_acct[i].webhook_id = w.id
                                /\ db.webhook_filter_acct[i].acct = acct })
                + Cardinality({ i \in 1..Len(db.webhook_filter_host) :
                                  /\ db.webhook_filter_host[i].webhook_id = w.id
                                  /\ db.webhook_filter_host[i].host = host })
        IN Len(observed) = 1 =>
               \A w \in db.webhooks :
                   rules(w) > 0 =>
                       Cardinality({ k \in 1..Len(sends) :
                                       sends[k].id = s.id /\ sends[k].webhook_id = w.id }) = 1

\* C15 witness: two acct rows (one a repeat of the other) and a host row of the
\* same persisted endpoint matched the status, and the endpoint was executed.
C15_Witness ==
    /\ \E s \in Routed : s.account.acct = <<"a", "@", "h">>
    /\ Len(db.webhook_filter_acct) = 2
    /\ \A i \in 1..2 : db.webhook_filter_acct[i].webhook_id = 1
    /\ \E i \in 1..Len(db.webhook_filter_host) : db.webhook_filter_host[i].webhook_id = 1
    /\ \E k \in 1..Len(sends) : sends[k].webhook_id = 1

\* C16: the webhooks executed for one status are deduplicated: no endpoint,
\* identified by its kind and URL, is executed more than once, also when it is
\* both in webhooks.yaml and matched through the filter tables.
C16_RoutedSetDeduplicated ==
    Len(observed) = 1 =>
        \A i, j \in 1..Len(sends) :
            (i # j /\ sends[i].id = sends[j].id)
                => << sends[i].type, sends[i].url >> # << sends[j].type, sends[j].url >>

\* the pairs of kind and URL of a sequence of webhooks or of calls
Endpoints(seq) == [i \in 1..Len(seq) |-> << seq[i].type, seq[i].url >>]

\* the account the token belongs to is mentioned in the status
MentionsBot(s) == token /\ BotAccountId \in s.mentions

C17_RecoveryGate ==
    /\ \A k \in 1..Len(sends) :
           \A s \in timeline :
               (sends[k].src = "missed" /\ s.id = sends[k].id)
                   => ~(s.visibility = "private" /\ s.account.locked /\ ~MentionsBot(s))
    /\ \A n \in 1..Len(visited) :
           \A s \in timeline :
               (/\ s.id = visited[n]
                /\ s.visibility = "private" /\ s.account.locked /\ MentionsBot(s)
                /\ (n < Len(visited) \/ pc \in {"fetch", "returned", "create_stream", "live"}))
                   => \E k \in 1..Len(sends) :
                          sends[k].id = s.id /\ sends[k].src = "missed" /\ sends[k].inc = inc

\* C18: on the multiplexed stream a status that passes the visibility test is
\* discarded exactly when the channel list of its frame does not contain
\* "public", "public" is a subscribed channel, and the status is public, not a
\* repost, and not a reply or a reply to its author's own account; every other
\* status that passes the visibility test, on either framing, is routed.
C18_PublicChannelGate ==
    [][Len(observed') = Len(observed) + 1 =>
          LET f == observed'[Len(observed')]
              s == f.status
              discoverable ==
                  /\ s.visibility = "public"
                  /\ s.reblog = << >>
                  /\ (s.in_reply_to_id = 0 \/ s.in_reply_to_account_id = s.account.id)
              discarded ==
                  /\ stream = "ws"
                  /\ \A i \in 1..Len(f.event) : f.event[i] # "public"
                  /\ \E i \in 1..Len(streams) : streams[i] = "public"
                  /\ discoverable
          IN ~(s.visibility = "private" /\ s.account.locked /\ ~MentionsBot(s))
                 => IF discarded THEN routing' = routing /\ sends' = sends
                    ELSE routing' = Append(routing, s)]_vars

\* C18 witness: a public reply to another account came on the user channel
\* only and was routed, its webhook executed.
C18_Witness ==
    /\ stream = "ws"
    /\ Len(observed) = 1
    /\ observed[1].event = <<"user">>
    /\ \E s \in Routed : s.visibility = "public" /\ s.in_reply_to_account_id = "2"
    /\ Len(sends) = 1

\* C19: with user and public subscribed, once a status came on both channels
\* (one frame each, in either order) every webhook that matches it is executed,
\* or about to be, exactly once.
C19_BothChannelsOnce ==
    (/\ stream = "ws"
     /\ Len(observed) = 2
     /\ observed[1].status = observed[2].status
     /\ { observed[1].event, observed[2].event } = { <<"user">>, <<"public">> })
        => LET s == observed[1].status
               webhooks == getWebhooksForStatus(s, account_host)
           IN /\ webhooks # << >>
              /\ \A i \in 1..Len(webhooks) :
                     Cardinality({ k \in 1..Len(sends) :
                                     sends[k].id = s.id /\ sends[k].url = webhooks[i].url })
                     + Cardinality({ k \in 1..Len(routing) : routing[k] = s }) = 1

\* C19 witness: the frame of the public channel came first, then the frame of
\* the user channel, and the one webhook of the status was executed once.
C19_Witness ==
    /\ stream = "ws"
    /\ Len(observed) = 2
    /\ observed[1].event = <<"public">>
    /\ observed[2].event = <<"user">>
    /\ observed[1].status = observed[2].status
    /\ routing = << >>
    /\ Len(sends) = 1

\* C20: every executeWebhookForStatus call makes at most one POST; once the
\* response is there, ok or not, or the request failed, the call is settled and
\* is not in flight again; and no more calls are made for a status and a URL
\* than the status was observed times the URL is in its routed set.
C20_OnePostNoRetry ==
    /\ \A k \in 1..Len(sends) :
           /\ Len(posts[k]) <= 1
           /\ pc = "live" => (k \in inflight <=> posts[k] = << >>)
    /\ \A s \in feed :
           \A u \in Urls :
               Cardinality({ k \in 1..Len(sends) : sends[k].id = s.id /\ sends[k].url = u })
                   <= Cardinality({ n \in 1..Len(observed) : observed[n].status = s })
                      * Cardinality({ i \in 1..Len(getWebhooksForStatus(s, account_host)) :
                                        getWebhooksForStatus(s, account_host)[i].url = u })

\* C20 witness: one status had two webhooks; one POST got a response that is
\* not ok, the other failed, both calls are settled and nothing is in flight.
C20_Witness ==
    /\ pc = "live"
    /\ Len(sends) = 2
    /\ inflight = {}
    /\ { posts[1], posts[2] } = { << "non-2xx" >>, << "network error" >> }

\* ---------------------------------------------- the claims, continued (2)

\* the handleStatus call logged as o went on to its webhooks
Accepted(o) ==
    ~(FollowersOnlySkipped(o.status, account_id)
      \/ (o.event = <<"user">> /\ o.status.visibility = "public"
          /\ isStatusDiscoverable(o.status)))

\* C21: when a delivery ends, in whichever way (the type of the endpoint is
\* unknown, the formatter throws, fetch rejects, the response is not ok), the
\* process goes on, no other delivery is touched, and nothing but a frame ends
\* the process; every status that got through has a delivery for each of its
\* three endpoints, and the generic endpoint always gets its POST.
C21_DeliveryIsolation ==
    [][ /\ \A k \in 1..Len(posts) :
             (pc = "live" /\ Len(posts'[k]) > Len(posts[k]))
             => /\ pc' = "live"
                /\ inflight' = inflight \ {k}
                /\ routing' = routing
                /\ sends' = sends
                /\ observed' = observed
                /\ \A j \in (1..Len(posts)) \ {k} : posts'[j] = posts[j]
        /\ (pc = "live" /\ pc' = "exited") => handled' = handled + 1
        /\ pc' = "live"
           => /\ Len(sends') + Len(config) * Len(routing')
                   = Len(config) * Cardinality({ n \in 1..Len(observed') : Accepted(observed'[n]) })
              /\ \A k \in (1..Len(sends')) \ inflight' :
                   sends'[k].type = "mastodon" => posts'[k] = << responds[sends'[k].url] >>
      ]_vars

\* a status whose delivery to the chat endpoint failed in the formatter and
\* whose delivery to the endpoint of unknown type failed, while the generic
\* endpoint was served; the status that came after it has its three deliveries
C21_Witness ==
    /\ pc = "live"
    /\ Len(sends) = 6
    /\ posts[1] = << "2xx" >>
    /\ posts[2] = << "TypeError" >>
    /\ posts[3] = << "Invalid webhook type" >>
    /\ posts[5] = << "TypeError" >>

\* C22: a status that waits for its webhooks gets them whatever deliveries are
\* still under way, a frame is handled whatever deliveries are under way, and
\* the deliveries of one status are all started in one go, none having
\* settled.
C22_DeliveriesNotAwaited ==
    [][ /\ (pc = "live" /\ routing # << >>) => ENABLED LiveWebhooks
        /\ (pc = "live" /\ handled < MaxLive) => ENABLED (\E i \in 1..Len(sockets) : WsMessage(i))
        /\ Len(sends') > Len(sends)
           => /\ Len(sends') = Len(sends) + Len(config)
              /\ inflight' = inflight \cup (Len(sends) + 1 .. Len(sends'))
              /\ \A k \in Len(sends) + 1 .. Len(sends') : posts'[k] = << >>
      ]_vars

\* the deliveries of two statuses, six in all, none of which has settled
C22_Witness ==
    /\ pc = "live"
    /\ Len(sends) = 6
    /\ inflight = 1..6
    /\ routing = << >>

\* the levels of a status: the status, what it reposts, and so on
RECURSIVE Depth(_)
Depth(s) == IF s.reblog = << >> THEN 1 ELSE 1 + Depth(s.reblog[1])

RECURSIVE Level(_, _)
Level(s, i) == IF i = 1 THEN s ELSE Level(s.reblog[1], i - 1)

\* a line break and the permalink, for each of the levels n.. that has one
RECURSIVE Permalinks(_, _)
Permalinks(s, n) ==
    IF n > Depth(s) THEN ""
    ELSE (IF Level(s, n).url # "" THEN "\n" \o Level(s, n).url ELSE "") \o Permalinks(s, n + 1)

\* the chat executor holds the message formatPayload returned
Formatted ==
    /\ execution.stage \in {"formatted", "delivered", "caught"}
    /\ execution.executor = "discord"
    /\ execution.payload # << >>

\* C23: the message for a status of N levels has N embeds, the i-th for the
\* i-th level counted from the status itself, and its content is the
\* permalinks of the levels that have one, in that order.
C23_OneEmbedPerLevelInOrder ==
    Formatted =>
        LET message == execution.payload[1]
            s == execution.status
        IN /\ Len(message.embeds) = Depth(s)
           /\ \A i \in 1..Depth(s) : message.embeds[i].url = Level(s, i).uri
           /\ message.content = Permalinks(s, 1)

\* a status that reposts a status that reposts a third, the outermost without
\* permalink, the ids of the first two differing
C23_Witness ==
    /\ Formatted
    /\ Depth(execution.status) = 3
    /\ execution.status.url = ""
    /\ execution.status.reblog[1].url # ""
    /\ execution.status.id # execution.status.reblog[1].id
    /\ Len(execution.payload[1].embeds) = 3

\* C24: no status id has two embeds in a message, whatever ids the levels of
\* the status carry.
C24_NoStatusIdTwice ==
    Formatted =>
        \A i, j \in 1..Len(execution.payload[1].embeds) :
            execution.payload[1].embeds[i].url = execution.payload[1].embeds[j].url => i = j

\* the images among the attachments of a status, by position
Images(s) == { i \in 1..Len(s.media_attachments) : s.media_attachments[i].type = "image" }

\* C25: the embed of a level has an image exactly when the level has an image
\* attachment, no content warning and is not sensitive, and the image is the
\* image attachment with the lowest position.
C25_ImagePreview ==
    Formatted =>
        \A i \in 1..Depth(execution.status) :
            LET s == Level(execution.status, i)
                e == execution.payload[1].embeds[i]
            IN /\ e.image # << >> <=> (Images(s) # {} /\ s.spoiler_text = "" /\ ~s.sensitive)
               /\ e.image # << >> =>
                    e.image[1].url = s.media_attachments[
                        CHOOSE n \in Images(s) : \A m \in Images(s) : n <= m].url

\* a video followed by two images, shown: the preview is the second attachment
C25_Witness ==
    /\ Formatted
    /\ Len(execution.status.media_attachments) = 3
    /\ execution.status.media_attachments[1].type = "video"
    /\ Images(execution.status) = {2, 3}
    /\ execution.payload[1].embeds[1].image # << >>
    /\ execution.payload[1].embeds[1].image[1].url = "m2"

\* text.endsWith(suffix)
EndsWith(text, suffix) ==
    Len(text) >= Len(suffix)
        /\ SubSeq(text, Len(text) - Len(suffix) + 1, Len(text)) = suffix

\* a count and its noun, singular for 1
Counted(n, noun) == ToString(n) \o " " \o noun \o (IF n = 1 THEN "" ELSE "s")

\* C26: the footer of a level counts all attachments if one of them is not an
\* image; else the images if the status has any and is spoilered or
\* sensitive; else the images beyond the first if there are two or more; else
\* there is none; the noun is singular exactly for the count 1.
C26_FooterCases ==
    Formatted =>
        \A i \in 1..Depth(execution.status) :
            LET s == Level(execution.status, i)
                footer == execution.payload[1].embeds[i].footer
                total == Len(s.media_attachments)
                images == Cardinality(Images(s))
            IN IF images < total
               THEN footer = << Counted(total, "attachment") >>
               ELSE IF (s.spoiler_text # "" \/ s.sensitive) /\ total > 0
               THEN footer = << Counted(images, "image") >>
               ELSE IF images > 1
               THEN /\ footer # << >>
                    /\ EndsWith(footer[1], " " \o Counted(images - 1, "image"))
                    /\ ~EndsWith(footer[1], "0 " \o Counted(images - 1, "image"))
               ELSE footer = << >>

\* two images, shown: the footer counts the one that is not the preview
C26_Witness ==
    /\ Formatted
    /\ Len(execution.status.media_attachments) = 2
    /\ Images(execution.status) = {1, 2}
    /\ ~execution.status.sensitive
    /\ execution.status.spoiler_text = ""
    /\ execution.payload[1].embeds[1].footer = << "+ 1 image" >>

\* the attachment types of the status executed, and its first footer
Types == [i \in 1..Len(execution.status.media_attachments) |->
              execution.status.media_attachments[i].type]
Shown == execution.status.spoiler_text = "" /\ ~execution.status.sensitive
Footer == execution.payload[1].embeds[1].footer

\* C27 as stated: the footers are "1 attachment", "2 attachments", "1 image"
\* for a sensitive image, and "+2 images" for three images that are shown.
C27_FooterWordingAsStated ==
    Formatted =>
        /\ Types = << "video" >> => Footer = << "1 attachment" >>
        /\ Types = << "video", "video" >> => Footer = << "2 attachments" >>
        /\ (Types = << "image" >> /\ execution.status.sensitive) => Footer = << "1 image" >>
        /\ (Types = << "image", "image", "image" >> /\ Shown)
           => (Footer = << "+2 images" >> /\ execution.payload[1].embeds[1].image[1].url = "m1")

\* C27: the footers are "1 attachment", "2 attachments", "1 image" for a
\* sensitive image, and "+ 2 images", with a space after the plus sign, for
\* three images that are shown, the first being the preview.
C27_FooterWording ==
    Formatted =>
        /\ Types = << "video" >> => Footer = << "1 attachment" >>
        /\ Types = << "video", "video" >> => Footer = << "2 attachments" >>
        /\ (Types = << "image" >> /\ execution.status.sensitive) => Footer = << "1 image" >>
        /\ (Types = << "image", "image", "image" >> /\ Shown)
           => (Footer = << "+ 2 images" >> /\ execution.payload[1].embeds[1].image[1].url = "m1")

\* three images, shown
C27_Witness ==
    /\ Formatted
    /\ Types = << "image", "image", "image" >>
    /\ Shown
    /\ Footer = << "+ 2 images" >>

\* the handle of the author of the status executed, and the name without
\* shortcodes and runs of whitespace
Handle == Text(status_acct(execution.status.account.acct, account_host))
Sanitized == Trim(CollapseWhitespace(RemoveShortcodes(execution.status.account.display_name)))

\* C28: the username of the message holds the name of the platform neither as
\* the platform writes it nor in lower case; it is the handle if the name
\* with the handle holds it, the placeholder if the handle holds it, and else
\* the sanitized name followed by the handle.
C28_UsernameNeverHoldsBrand ==
    Formatted =>
        LET name == execution.payload[1].username IN
        /\ ~TextIncludes(name, "discord")
        /\ ~TextIncludes(name, "Discord")
        /\ name = IF TextIncludes(Handle, "discord") THEN "???"
                  ELSE IF TextIncludes(Sanitized, "discord") THEN "@" \o Handle
                  ELSE Sanitized \o " - @" \o Handle

\* the rule of C28 for the name in lower case only
C28_LowerCaseOnly ==
    Formatted =>
        LET name == execution.payload[1].username IN
        /\ ~TextIncludes(name, "discord")
        /\ name = IF TextIncludes(Handle, "discord") THEN "???"
                  ELSE IF TextIncludes(Sanitized, "discord") THEN "@" \o Handle
                  ELSE Sanitized \o " - @" \o Handle

\* C29: the chat executor waits exactly when an embed of the message shows an
\* image and the status is of this server; the generic executor never waits.
C29_WaitsIffImageShown ==
    execution.stage \in {"formatted", "delivered"} =>
        execution.waited <=>
            /\ execution.executor = "discord"
            /\ StartsWith(execution.status.uri, server_url)
            /\ \E i \in 1..Len(execution.payload[1].embeds) :
                 execution.payload[1].embeds[i].image # << >>

\* C30: no two promises of one account are unsettled at once, a call made
\* while one is unsettled gets that one, the promise a call gets is the one of
\* its key, and what a caller receives is the colour its promise was computed
\* to.
C30_OneComputationPerKey ==
    [][ /\ \A p, q \in 1..Len(promises') :
             (/\ promises'[p].account = promises'[q].account
              /\ promises'[p].state # "fulfilled"
              /\ promises'[q].state # "fulfilled") => p = q
        /\ Len(callers') > Len(callers)
           => LET c == callers'[Len(callers')] IN
              /\ promises'[c.promise].key = key(c.account)
              /\ promises'[c.promise].state # "fulfilled"
              /\ (\E p \in 1..Len(promises) : /\ promises[p].account = c.account
                                              /\ promises[p].state # "fulfilled")
                 => (Len(promises') = Len(promises) /\ promises[c.promise].key = key(c.account))
        /\ \A c \in 1..Len(callers') :
             callers'[c].colour # << >>
             => /\ promises'[callers'[c].promise].state = "fulfilled"
                /\ callers'[c].colour = promises'[callers'[c].promise].value
      ]_vars

\* three calls for one account while its colour is computed: one promise, and
\* the three have received its colour
C30_Witness ==
    /\ Len(callers) = 3
    /\ Len(promises) = 1
    /\ \A c \in 1..3 : callers[c].colour = << 1 >>

\* ------------------------------------------------ the claims, continued (3)

\* C31: the map holds no entry whose promise has settled, whether the colour
\* was computed or the computation failed and gave null; every promise that has
\* not settled has its entry; and a call for an account none of whose promises
\* is unsettled starts a new computation.
C31_EntryRemovedWhenSettled ==
    [][ /\ \A e \in account_colour_promise' : promises'[e.promise].state # "fulfilled"
        /\ \A p \in 1..Len(promises') :
             promises'[p].state # "fulfilled"
             => [key |-> promises'[p].key, promise |-> p] \in account_colour_promise'
        /\ Len(callers') > Len(callers)
           => LET c == callers'[Len(callers')] IN
              (\A p \in 1..Len(promises) : promises[p].key = key(c.account)
                                            => promises[p].state = "fulfilled")
              => /\ Len(promises') = Len(promises) + 1
                 /\ c.promise = Len(promises')
                 /\ promises'[c.promise].state = "pending"
      ]_vars

\* the computation for an account failed (null) and settled, its entry is gone,
\* and a later call for the same account started a second computation
C31_Witness ==
    /\ Len(promises) = 2
    /\ promises[1].key = promises[2].key
    /\ promises[1].state = "fulfilled" /\ promises[1].value = << 0 >>
    /\ promises[2].state = "pending"
    /\ account_colour_promise = { [key |-> promises[2].key, promise |-> 2] }
    /\ callers[Len(callers)].promise = 2

\* C37: a caller never holds the promise, nor receives the colour, computed for
\* an account other than its own: no two accounts have the same key.
C37_KeyInjective ==
    \A c \in 1..Len(callers) :
        /\ promises[callers[c].promise].account = callers[c].account
        /\ \A d \in 1..Len(callers) :
             callers[d].promise = callers[c].promise => callers[d].account = callers[c].account

\* C34: a timer is set only on a connection of the multiplexed client that has
\* opened and has not closed, such a connection has its timer from the moment
\* it opens, at most one timer is set, and a ping is sent only by a step of an
\* open connection whose timer is set.
C34_KeepaliveLifecycle ==
    [][ /\ \A i \in 1..Len(sockets') :
             /\ sockets'[i].interval => (stream' = "ws" /\ sockets'[i].state \in {"open", "closing"})
             /\ sockets'[i].state = "open" => sockets'[i].interval
             /\ sockets'[i].state = "closed" => ~sockets'[i].interval
        /\ Cardinality({ i \in 1..Len(sockets') : sockets'[i].interval }) <= 1
        /\ stream' = "es" => sockets' = << >>
        /\ \A i \in 1..Len(sockets) :
             sockets'[i].pings > sockets[i].pings
             => (stream = "ws" /\ sockets[i].state = "open" /\ sockets[i].interval)
      ]_vars

\* a connection sent pings and closed, its timer is cancelled, and the next
\* connection is open with a timer of its own and has sent a ping
C34_Witness ==
    /\ Len(sockets) = 2
    /\ sockets[1].state = "closed" /\ sockets[1].pings = MaxPings /\ ~sockets[1].interval
    /\ sockets[2].state = "open" /\ sockets[2].interval /\ sockets[2].pings = 1

\* C35: when the server sends no new status, whatever notifications, edits and
\* deletions either stream client is handed, no status is observed, none waits
\* for its webhooks, no delivery is started, and the cursor is the one the
\* process started with.
C35_OtherEventsDoNothing ==
    /\ observed = << >>
    /\ routing = << >>
    /\ ~ENABLED LiveWebhooks
    /\ sends = << >> /\ inflight = {}
    /\ last_status_id = 0
    /\ Cursor = state_last_status_id
    /\ file = state_last_status_id

\* the client was handed as many events as the bound allows, none of them a
\* new status, and the process runs
C35_Witness ==
    /\ pc = "live"
    /\ handled = MaxLive
    /\ state_last_status_id = MaxCursor

\* C38: when the POST of a status to an endpoint is issued, the POST to that
\* endpoint of every status that was accepted before it and that the endpoint
\* matches has been issued.
C38_PostsInArrivalOrder ==
    [][ \A k \in 1..Len(posts) :
          (posts[k] = << >> /\ posts'[k] = << "pending" >>)
          => \A m, n \in 1..Len(observed) :
                (/\ m < n
                 /\ Accepted(observed[m]) /\ Accepted(observed[n])
                 /\ observed[n].status = sends[k].status
                 /\ observed[m].status # sends[k].status
                 /\ \E w \in Range(getWebhooksForStatus(observed[m].status, account_host)) :
                        w.url = sends[k].url)
                => \E j \in 1..Len(sends) : /\ sends[j].status = observed[m].status
                                             /\ sends[j].url = sends[k].url
                                             /\ posts[j] # << >>
      ]_vars

\* C32: no two rows of the table webhooks have the same type and url.
C32_EndpointIdentityUnique ==
    \A v, w \in db.webhooks : (v.type = w.type /\ v.url = w.url) => v = w

\* C33: a command whose request to the server failed, or was answered with an
\* error other than 404, does not reply that there are no results.
C33_UpstreamErrorNotEmpty ==
    \A c \in 1..Len(discord.commands) :
        (/\ discord.commands[c].pc = "done"
         /\ discord.commands[c].upstream.status \in {"500", "network error"})
        => discord.commands[c].reply # "No results found."

\* C36: every row of webhook_filter_acct and of webhook_filter_host has the id
\* of a row of webhooks.
C36_RulesReferenceEndpoints ==
    /\ \A i \in 1..Len(db.webhook_filter_acct) :
           \E w \in db.webhooks : w.id = db.webhook_filter_acct[i].webhook_id
    /\ \A i \in 1..Len(db.webhook_filter_host) :
           \E w \in db.webhooks : w.id = db.webhook_filter_host[i].webhook_id

====
